---- MODULE Spec2Model ----
(***************************************************************************)
(* A model of bourbaki.ioutils.flexiblepersist: the codec registry         *)
(* (IORegistry), the extension resolver (pipeline_from_extension), the     *)
(* memoized pipeline compiler (compile_pipeline under functools.lru_cache) *)
(* and the construction of the persistence facade (FlexiblePersist).       *)
(*                                                                         *)
(* Python strings that are parsed or formatted are sequences of tokens,    *)
(* "." being the dot token, so that '.' + ext.lstrip('.') and              *)
(* ext.lstrip('.').split('.') are computed and not assumed.  Callables are *)
(* sequences of primitive steps in application order; data are symbolic    *)
(* terms (an object under the layers the codecs have put on it).           *)
(* The optional dill serializer (flexiblepersist.py:426-433) is taken as   *)
(* not installed.                                                          *)
(***************************************************************************)
EXTENDS Integers, Sequences, FiniteSets, TLC

VARIABLES
    reg,      \* registry instance -> its own (child) tables
    cache,    \* the lru_cache of compile_pipeline: key -> compiled pipeline
    facade,   \* what the last constructor call returned: a FlexiblePersist object,
              \* or NoFacade when it raised
    ret,      \* the last call and how it ended
    failed,   \* history: the cache keys of the direct compile_pipeline calls that
              \* have raised for an unknown codec
    files,    \* the file system: path -> content of the file
    opened,   \* the files an operation has opened from a path and not closed
    it,       \* the iterator the last load_stream_from_dir call returned
    mac       \* a MacOSFile, the file it wraps and the write call in progress

\* what the registry, the compiler and the constructors leave alone
iovars == <<files, opened, it, mac>>

vars == <<reg, cache, facade, ret, failed, files, opened, it, mac>>

\* ------------------------------------------------------------------ bounds
\* successful registrations over all registry instances
MaxRegs == 2
\* entries of the pipeline cache
MaxCache == 2

\* ----------------------------------------------------------------- strings
Dot == "."

RECURSIVE lstrip(_)
\* str.lstrip('.')
lstrip(s) ==
    IF s # <<>> /\ Head(s) = Dot THEN lstrip(Tail(s)) ELSE s

RECURSIVE splitAcc(_, _, _)
splitAcc(s, cur, acc) ==
    IF s = <<>> THEN Append(acc, cur)
    ELSE IF Head(s) = Dot THEN splitAcc(Tail(s), <<>>, Append(acc, cur))
    ELSE splitAcc(Tail(s), Append(cur, Head(s)), acc)

\* str.split('.'): the list of parts, each a string
split(s) == splitAcc(s, <<>>, <<>>)

\* '.' + extension.lstrip('.')
dotted(extension) == <<Dot>> \o lstrip(extension)

\* ------------------------------------------------------------- callables
NoCodec == [origin |-> "-", group |-> "-", name |-> "-", str |-> FALSE]

\* one primitive step of a callable
Prim(op, codec) ==
    [op |-> op, codec |-> codec, enc |-> "-", kw |-> "None", inner |-> <<>>]

\* Python's None, and an object that is not callable (truthy)
NoneV == <<Prim("None", NoCodec)>>
NotCallableV == <<Prim("NotCallable", NoCodec)>>

callable(f) == f \notin {NoneV, NotCallableV}
truthy(f) == f # NoneV

\* a codec shipped at class level, and one supplied by the caller of register_*
ClassCodec(group, name) ==
    [origin |-> "class", group |-> group, name |-> name, str |-> (group = "text")]
UserCodec(r, group, name, returnsStr) ==
    [origin |-> r, group |-> group, name |-> name, str |-> returnsStr]

Fn(op, codec) == <<Prim(op, codec)>>

\* StreamSerializer(ser): obj, file -> file.write(ser(obj))
StreamSerializer(ser) ==
    <<[Prim("StreamSerializer", NoCodec) EXCEPT !.inner = ser]>>
\* StreamDeserializer(deser): file -> deser(file.read())
StreamDeserializer(deser) ==
    <<[Prim("StreamDeserializer", NoCodec) EXCEPT !.inner = deser]>>
\* StrSerializer(ser, binary): obj -> the content ser wrote to an in-memory file
StrSerializer(ser, binary) ==
    <<[Prim("StrSerializer", NoCodec) EXCEPT !.inner = ser,
                                             !.enc = IF binary THEN "b" ELSE ""]>>
StrDeserializer(deser, binary) ==
    <<[Prim("StrDeserializer", NoCodec) EXCEPT !.inner = deser,
                                               !.enc = IF binary THEN "b" ELSE ""]>>

\* ------------------------------------------------------------------ maps
EmptyMap == [k \in {} |-> NoneV]

Put(m, k, v) == [x \in (DOMAIN m) \cup {k} |-> IF x = k THEN v ELSE m[x]]

MapOf(names, op, group) == [n \in names |-> Fn(op, ClassCodec(group, n))]

\* an insertion-ordered dict of strings: a sequence of <<key, value>> without
\* repeated keys; assignment to a present key keeps its position
OHas(d, k) == \E i \in 1..Len(d) : d[i][1] = k

OGet(d, k) == (CHOOSE i \in 1..Len(d) : d[i][1] = k)

OPut(d, k, v) ==
    IF OHas(d, k)
    THEN [i \in 1..Len(d) |-> IF d[i][1] = k THEN <<k, v>> ELSE d[i]]
    ELSE Append(d, <<k, v>>)

OVal(d, k) == d[OGet(d, k)][2]

\* ------------------------------------------------- class-level registries
DEFAULT_TEXT_ENCODING == "utf-8"

BinSerializers == {"pickle", "msgpack"}
TextSerializers == {"json"}
Compressions == {"lzma", "lz4", "bz2", "gzip"}
TextEncodings == {"base16", "base32", "base64", "base85"}

Class ==
    [dumpers |-> MapOf(BinSerializers, "dumps", "bin"),
     loaders |-> MapOf(BinSerializers, "loads", "bin"),
     file_dumpers |-> MapOf(BinSerializers, "dump", "bin"),
     file_loaders |-> MapOf(BinSerializers, "load", "bin"),
     text_dumpers |-> MapOf(TextSerializers, "dumps", "text"),
     text_loaders |-> MapOf(TextSerializers, "loads", "text"),
     text_file_dumpers |-> MapOf(TextSerializers, "dump", "text"),
     text_file_loaders |-> MapOf(TextSerializers, "load", "text"),
     compressors |-> MapOf(Compressions, "compress", "comp"),
     decompressors |-> MapOf(Compressions, "decompress", "comp"),
     text_encoders |-> MapOf(TextEncodings, "encode", "tenc"),
     text_decoders |-> MapOf(TextEncodings, "decode", "tenc"),
     compression_extensions |->
        << <<"lzma", <<Dot, "lzma">> >>, <<"lz4", <<Dot, "lz4">> >>,
           <<"bz2", <<Dot, "bz2">> >>, <<"gzip", <<Dot, "gzip">> >> >>,
     serialization_extensions |->
        << <<"json", <<Dot, "json">> >>, <<"pickle", <<Dot, "pkl">> >>,
           <<"msgpack", <<Dot, "msgpack">> >> >>,
     text_extensions |->
        << <<"base16", <<Dot, "b16">> >>, <<"base32", <<Dot, "b32">> >>,
           <<"base64", <<Dot, "b64">> >>, <<"base85", <<Dot, "b85">> >> >>]

FnTables ==
    {"dumpers", "loaders", "file_dumpers", "file_loaders",
     "text_dumpers", "text_loaders", "text_file_dumpers", "text_file_loaders",
     "compressors", "decompressors", "text_encoders", "text_decoders"}
ExtTables == {"compression_extensions", "serialization_extensions", "text_extensions"}

\* IORegistry.__init__: every table is ChainMap({}, <the class-level table>)
NewRegistry(char_encoding) ==
    [dumpers |-> EmptyMap, loaders |-> EmptyMap,
     file_dumpers |-> EmptyMap, file_loaders |-> EmptyMap,
     text_dumpers |-> EmptyMap, text_loaders |-> EmptyMap,
     text_file_dumpers |-> EmptyMap, text_file_loaders |-> EmptyMap,
     compressors |-> EmptyMap, decompressors |-> EmptyMap,
     text_encoders |-> EmptyMap, text_decoders |-> EmptyMap,
     compression_extensions |-> <<>>, serialization_extensions |-> <<>>,
     text_extensions |-> <<>>,
     text_encoders_return_str |-> {},
     char_encoding |-> char_encoding]

\* ChainMap: key in chain, chain.get(key), chain[key] = value, chain.items()
ChainIn(R, t, k) == k \in DOMAIN R[t] \/ k \in DOMAIN Class[t]

ChainGet(R, t, k) ==
    IF k \in DOMAIN R[t] THEN R[t][k]
    ELSE IF k \in DOMAIN Class[t] THEN Class[t][k]
    ELSE NoneV

ChainKeys(R, t) == (DOMAIN R[t]) \cup (DOMAIN Class[t])

\* the same for the extension tables, in ChainMap's iteration order: the parent's
\* keys in the parent's order, then the keys only the child holds
ExtIn(R, t, k) == OHas(R[t], k) \/ OHas(Class[t], k)

ExtGet(R, t, k) ==
    IF OHas(R[t], k) THEN OVal(R[t], k) ELSE OVal(Class[t], k)

ExtItems(R, t) ==
    [i \in 1..Len(Class[t]) |-> <<Class[t][i][1], ExtGet(R, t, Class[t][i][1])>>]
    \o SelectSeq(R[t], LAMBDA kv : ~OHas(Class[t], kv[1]))

\* ----------------------------------------------------------- registration
Result(out, R) == [out |-> out, R |-> R]

\* IORegistry.register_compressor
register_compressor(R, name, compressor, decompressor, extension) ==
    IF ChainIn(R, "compressors", name) \/ ChainIn(R, "decompressors", name)
    THEN Result("KeyError", R)
    ELSE IF ~callable(compressor) \/ ~callable(decompressor)
    THEN Result("TypeError", R)
    ELSE Result("ok",
        [R EXCEPT !.compressors = Put(@, name, compressor),
                  !.decompressors = Put(@, name, decompressor),
                  !.compression_extensions = OPut(@, name, dotted(extension))])

\* IORegistry.register_text_encoder
register_text_encoder(R, name, extension, encoder, decoder, binary) ==
    IF ChainIn(R, "text_encoders", name) \/ ChainIn(R, "text_decoders", name)
    THEN Result("KeyError", R)
    ELSE IF ~callable(encoder) \/ ~callable(decoder)
    THEN Result("TypeError", R)
    ELSE Result("ok",
        [R EXCEPT !.text_encoders_return_str = IF binary THEN @ ELSE @ \cup {name},
                  !.text_encoders = Put(@, name, encoder),
                  !.text_decoders = Put(@, name, decoder),
                  !.text_extensions = OPut(@, name, dotted(extension))])

\* the four tables register_serializer and compile_pipeline select by `binary`
SerTables(binary) ==
    IF binary
    THEN [loaders |-> "loaders", dumpers |-> "dumpers",
          file_loaders |-> "file_loaders", file_dumpers |-> "file_dumpers"]
    ELSE [loaders |-> "text_loaders", dumpers |-> "text_dumpers",
          file_loaders |-> "text_file_loaders", file_dumpers |-> "text_file_dumpers"]

\* the callables the loop at flexiblepersist.py:222-227 tests with callable():
\* the fourth entry is labelled stream_deserializer and holds stream_serializer
CheckedCallables(serializer, deserializer, stream_serializer, stream_deserializer) ==
    <<serializer, stream_serializer, deserializer, stream_serializer>>

\* IORegistry.register_serializer
register_serializer(R, name, extension, serializer, deserializer, stream_serializer, stream_deserializer, binary) ==
    LET T == SerTables(binary)
        checked == CheckedCallables(serializer, deserializer,
                                    stream_serializer, stream_deserializer)
        ser == IF truthy(serializer) THEN serializer
               ELSE StrSerializer(serializer, binary)
        stream_ser == IF truthy(stream_serializer) THEN stream_serializer
                      ELSE StreamSerializer(serializer)
        deser == IF truthy(deserializer) THEN deserializer
                 ELSE StrDeserializer(deserializer, binary)
        stream_deser == IF truthy(stream_deserializer) THEN stream_deserializer
                        ELSE StreamDeserializer(deserializer)
    IN  IF ChainIn(R, T.loaders, name) \/ ChainIn(R, T.dumpers, name)
        THEN Result("KeyError", R)
        ELSE IF \E i \in 1..Len(checked) : ~callable(checked[i])
        THEN Result("TypeError", R)
        ELSE Result("ok",
            [R EXCEPT ![T.dumpers] = Put(@, name, ser),
                      ![T.loaders] = Put(@, name, deser),
                      ![T.file_dumpers] = Put(@, name, stream_ser),
                      ![T.file_loaders] = Put(@, name, stream_deser),
                      !.serialization_extensions = OPut(@, name, dotted(extension))])

\* IORegistry.is_binary_serialization: TRUE, FALSE, or "KeyError"
is_binary_serialization(R, serialization) ==
    IF ChainIn(R, "loaders", serialization) THEN "True"
    ELSE IF ChainIn(R, "text_loaders", serialization) THEN "False"
    ELSE "KeyError"

\* IORegistry.is_binary_text_encoding
is_binary_text_encoding(R, encoding) ==
    IF encoding \in R.text_encoders_return_str THEN "False"
    ELSE IF ChainIn(R, "text_encoders", encoding) THEN "True"
    ELSE "KeyError"

\* ------------------------------------------------------- symbolic data
Objects == {"o1", "o2"}

Obj(x) == [base |-> x, layers |-> <<>>]
\* an exception raised while a callable runs
Err == [base |-> "Error", layers |-> <<>>]

Layer(tag, codec, enc, kw) == [tag |-> tag, codec |-> codec, enc |-> enc, kw |-> kw]

Top(v) == v.layers[Len(v.layers)]
Pop(v) == [v EXCEPT !.layers = SubSeq(@, 1, Len(@) - 1)]
Push(v, l) == [v EXCEPT !.layers = Append(@, l)]

\* the Python type of a datum: "obj", "bytes" or "str"
TypeOf(v) ==
    IF v = Err THEN "error"
    ELSE IF v.layers = <<>> THEN "obj"
    ELSE LET l == Top(v)
         IN  IF l.tag \in {"ser", "tenc"}
             THEN (IF l.codec.str THEN "str" ELSE "bytes")
             ELSE IF l.tag = "dec" THEN "str"
             ELSE "bytes"

HasTop(v, tag) == v # Err /\ v.layers # <<>> /\ Top(v).tag = tag

\* one primitive applied to a datum.  A codec's inverse undoes its own forward
\* and raises on anything else; str.encode and bytes.decode undo each other.
ApplyPrim(p, v) ==
    IF v = Err THEN Err
    ELSE IF p.op = "dumps"
    THEN (IF TypeOf(v) = "obj" THEN Push(v, Layer("ser", p.codec, "-", p.kw)) ELSE Err)
    ELSE IF p.op = "loads"
    THEN (IF HasTop(v, "ser") /\ Top(v).codec = p.codec THEN Pop(v) ELSE Err)
    ELSE IF p.op = "compress"
    THEN (IF TypeOf(v) = "bytes" THEN Push(v, Layer("comp", p.codec, "-", p.kw)) ELSE Err)
    ELSE IF p.op = "decompress"
    THEN (IF HasTop(v, "comp") /\ Top(v).codec = p.codec THEN Pop(v) ELSE Err)
    ELSE IF p.op = "encode"
    THEN (IF TypeOf(v) = "bytes" THEN Push(v, Layer("tenc", p.codec, "-", "None")) ELSE Err)
    ELSE IF p.op = "decode"
    THEN (IF HasTop(v, "tenc") /\ Top(v).codec = p.codec THEN Pop(v) ELSE Err)
    ELSE IF p.op = "str_to_bytes"
    THEN (IF TypeOf(v) # "str" THEN Err
          ELSE IF HasTop(v, "dec") /\ Top(v).enc = p.enc THEN Pop(v)
          ELSE Push(v, Layer("enc", NoCodec, p.enc, "None")))
    ELSE IF p.op = "bytes_to_str"
    THEN (IF TypeOf(v) # "bytes" THEN Err
          ELSE IF HasTop(v, "enc") /\ Top(v).enc = p.enc THEN Pop(v)
          ELSE Push(v, Layer("dec", NoCodec, p.enc, "None")))
    ELSE Err

RECURSIVE Apply(_, _)
\* a callable applied to a datum: its primitives in order
Apply(f, v) ==
    IF f = <<>> THEN v ELSE Apply(Tail(f), ApplyPrim(Head(f), v))

\* ---------------------------------------------------- function plumbing
RECURSIVE compose(_)
\* cytoolz.compose(*fs): the last function is applied first
compose(fs) ==
    IF fs = <<>> THEN <<>> ELSE compose(Tail(fs)) \o Head(fs)

reversed(fs) == [i \in 1..Len(fs) |-> fs[Len(fs) + 1 - i]]

\* functools.partial(f, **kw)
partial(f, kw) == [i \in 1..Len(f) |-> [f[i] EXCEPT !.kw = kw]]

\* IORegistry.bytes_to_str_default / str_to_bytes_default
bytes_to_str_default(R) ==
    <<[Prim("bytes_to_str", NoCodec) EXCEPT !.enc = R.char_encoding]>>
str_to_bytes_default(R) ==
    <<[Prim("str_to_bytes", NoCodec) EXCEPT !.enc = R.char_encoding]>>

\* IORegistry._get_lambda on a ChainMap of callables: None is a ValueError
get_lambda(R, t, key) == ChainGet(R, t, key)

\* IORegistry.get_serializer_pairs / get_text_serializer_pairs
get_serializer_pairs(R, binary, serialization) ==
    LET T == SerTables(binary)
    IN  <<get_lambda(R, T.dumpers, serialization),
          get_lambda(R, T.loaders, serialization),
          get_lambda(R, T.file_dumpers, serialization),
          get_lambda(R, T.file_loaders, serialization)>>

\* IORegistry.get_compressor_pair
get_compressor_pair(R, compression) ==
    <<get_lambda(R, "compressors", compression),
      get_lambda(R, "decompressors", compression)>>

\* IORegistry.get_text_encoder_pair
get_text_encoder_pair(R, conversion) ==
    LET encoder == get_lambda(R, "text_encoders", conversion)
        decoder == get_lambda(R, "text_decoders", conversion)
    IN  IF conversion \notin R.text_encoders_return_str
        THEN <<compose(<<bytes_to_str_default(R), encoder>>),
               compose(<<decoder, str_to_bytes_default(R)>>)>>
        ELSE <<encoder, decoder>>

\* ------------------------------------------------------ compile_pipeline
None == "None"
Omitted == "<omitted>"

\* the value a parameter takes in the body: its default when not passed
Given(x) == IF x = Omitted THEN None ELSE x

\* a keyword-options argument: None, a dict, or a hashable mapping
hashable(x) == x # "dict"
nonempty(x) == x \in {"dict", "frozen"}

NoPipe ==
    [to_str |-> NoneV, from_str |-> NoneV, to_file |-> NoneV, from_file |-> NoneV,
     file_mode |-> "-"]

Raised(e) == [out |-> e, pipe |-> NoPipe]

\* the stage lists to_str_fs and from_str_fs of compile_pipeline, in list order
StageLists(R, binary, to_str, from_str, compression, text_encoding, comp, tenc) ==
    LET Appended(s, to, from) == [to |-> Append(s.to, to), from |-> Append(s.from, from)]
        \* str_to_bytes_default / bytes_to_str_default after a text serializer
        Bridged(s, needed) ==
            IF needed
            THEN Appended(s, str_to_bytes_default(R), bytes_to_str_default(R))
            ELSE s
        Compressed(s) ==
            IF compression = None THEN s
            ELSE Appended(Bridged(s, ~binary), comp[1], comp[2])
        Encoded(s) ==
            IF text_encoding = None THEN s
            ELSE Appended(Bridged(s, ~binary /\ compression = None), tenc[1], tenc[2])
    IN  Encoded(Compressed([to |-> <<to_str>>, from |-> <<from_str>>]))

\* mutant of ComposeForward: the list is composed without being reversed
ComposeForward_NotReversed(fs) == compose(fs)

\* the composition of the to_str_fs list: compose(*reversed(to_str_fs))
ComposeForward(fs) == compose(reversed(fs))

\* the composition of the from_str_fs list: compose(*from_str_fs)
ComposeInverse(fs) == compose(fs)

\* the body of IORegistry.compile_pipeline on parameter values a
compile_pipeline(R, a) ==
    LET direct == a.compression = None /\ a.text_encoding = None
        Composed(binary, to_s, from_s, to_file, from_file) ==
            [out |-> "ok",
             pipe |-> [to_str |-> to_s, from_str |-> from_s,
                       to_file |-> IF direct THEN compose(reversed(<<to_file>>))
                                   ELSE StreamSerializer(to_s),
                       from_file |-> IF direct THEN compose(<<from_file>>)
                                     ELSE StreamDeserializer(from_s),
                       file_mode |-> IF a.text_encoding # None THEN ""
                                     ELSE IF a.compression # None THEN "b"
                                     ELSE IF binary THEN "b" ELSE ""]]
        Staged(binary, fs, to_file, from_file) ==
            Composed(binary, ComposeForward(fs.to), ComposeInverse(fs.from),
                     to_file, from_file)
        Bound(binary, to_str, from_str, to_file, from_file, comp, tenc) ==
            Staged(binary,
                   StageLists(R, binary, to_str, from_str, a.compression,
                              a.text_encoding, comp, tenc),
                   to_file, from_file)
        Found(isbin, four, pair, encoder, decoder) ==
            IF isbin = "KeyError" THEN Raised("KeyError")
            ELSE IF \E i \in 1..4 : four[i] = NoneV THEN Raised("ValueError")
            ELSE IF a.compression # None /\ (pair[1] = NoneV \/ pair[2] = NoneV)
            THEN Raised("ValueError")
            ELSE IF a.text_encoding # None /\ (encoder = NoneV \/ decoder = NoneV)
            THEN Raised("ValueError")
            ELSE Bound(isbin = "True",
                       IF nonempty(a.dump_kw) THEN partial(four[1], a.dump_kw) ELSE four[1],
                       IF nonempty(a.load_kw) THEN partial(four[2], a.load_kw) ELSE four[2],
                       IF nonempty(a.dump_kw) THEN partial(four[3], a.dump_kw) ELSE four[3],
                       IF nonempty(a.load_kw) THEN partial(four[4], a.load_kw) ELSE four[4],
                       <<IF nonempty(a.compress_kw) THEN partial(pair[1], a.compress_kw)
                         ELSE pair[1],
                         IF nonempty(a.decompress_kw) THEN partial(pair[2], a.decompress_kw)
                         ELSE pair[2]>>,
                       get_text_encoder_pair(R, a.text_encoding))
        Looked(isbin) ==
            Found(isbin,
                  get_serializer_pairs(R, isbin = "True", a.serialization),
                  get_compressor_pair(R, a.compression),
                  get_lambda(R, "text_encoders", a.text_encoding),
                  get_lambda(R, "text_decoders", a.text_encoding))
    IN  Looked(is_binary_serialization(R, a.serialization))

\* a call of compile_pipeline as written: which arguments are passed, and how
Call(positional, serialization, compression, text_encoding, dump_kw, load_kw, compress_kw, decompress_kw) ==
    [positional |-> positional, serialization |-> serialization,
     compression |-> compression, text_encoding |-> text_encoding,
     dump_kw |-> dump_kw, load_kw |-> load_kw,
     compress_kw |-> compress_kw, decompress_kw |-> decompress_kw]

\* the parameter values of a call
Params(call) ==
    [serialization |-> call.serialization,
     compression |-> Given(call.compression),
     text_encoding |-> Given(call.text_encoding),
     dump_kw |-> Given(call.dump_kw), load_kw |-> Given(call.load_kw),
     compress_kw |-> Given(call.compress_kw),
     decompress_kw |-> Given(call.decompress_kw)]

\* functools.lru_cache: the key is made of the arguments as passed (self first)
CacheKey(r, call) == <<r, call>>

KeyHashable(call) ==
    /\ hashable(call.dump_kw) /\ hashable(call.load_kw)
    /\ hashable(call.compress_kw) /\ hashable(call.decompress_kw)

\* what a cache miss stores: the value the body returned
Stored(c, key, res) ==
    Put(c, key, [id |-> Cardinality(DOMAIN c) + 1, pipe |-> res.pipe])

\* mutant of cached_compile: a call that raises leaves an entry behind
cached_compile_CachesFailure(c, rg, r, call) ==
    LET Kept(key, res, c2) ==
            [out |-> res.out, id |-> IF res.out = "ok" THEN c2[key].id ELSE 0,
             pipe |-> res.pipe, hit |-> FALSE, cache |-> c2]
        Missed(key, res) == Kept(key, res, Stored(c, key, res))
        Looked(key) ==
            IF ~KeyHashable(call)
            THEN [out |-> "TypeError", id |-> 0, pipe |-> NoPipe, hit |-> FALSE,
                  cache |-> c]
            ELSE IF key \in DOMAIN c
            THEN [out |-> "ok", id |-> c[key].id, pipe |-> c[key].pipe, hit |-> TRUE,
                  cache |-> c]
            ELSE Missed(key, compile_pipeline(rg[r], Params(call)))
    IN  Looked(CacheKey(r, call))

\* @lru_cache(None) around compile_pipeline, called on instance r
cached_compile(c, rg, r, call) ==
    LET Kept(key, res, c2) ==
            [out |-> "ok", id |-> c2[key].id, pipe |-> res.pipe, hit |-> FALSE,
             cache |-> c2]
        Missed(key, res) ==
            IF res.out # "ok"
            THEN [out |-> res.out, id |-> 0, pipe |-> NoPipe, hit |-> FALSE, cache |-> c]
            ELSE Kept(key, res, Stored(c, key, res))
        Looked(key) ==
            IF ~KeyHashable(call)
            THEN [out |-> "TypeError", id |-> 0, pipe |-> NoPipe, hit |-> FALSE,
                  cache |-> c]
            ELSE IF key \in DOMAIN c
            THEN [out |-> "ok", id |-> c[key].id, pipe |-> c[key].pipe, hit |-> TRUE,
                  cache |-> c]
            ELSE Missed(key, compile_pipeline(rg[r], Params(call)))
    IN  Looked(CacheKey(r, call))

\* --------------------------------------------------- extension resolver
Value(v) == [out |-> "ok", val |-> v]
Raise(e) == [out |-> e, val |-> None]

\* dict(map(reversed, dict_.items())).get(ext): of several names with one
\* extension the last one iterated stays
RevGet(items, ext) ==
    LET Last(hits) ==
            IF hits = {} THEN None
            ELSE items[CHOOSE i \in hits : \A j \in hits : j <= i][1]
    IN  Last({i \in 1..Len(items) : items[i][2] = ext})

\* _get_lambda on the reversed dict: a missing key is a ValueError
Named(name) == IF name = None THEN Raise("ValueError") ELSE Value(name)

\* mutant of name_from_ext: the key is looked up without its leading dot
name_from_ext_NoDot(R, ext, t) == Named(RevGet(ExtItems(R, t), lstrip(ext)))

\* IORegistry._name_from_ext
name_from_ext(R, ext, t) == Named(RevGet(ExtItems(R, t), dotted(ext)))

serialization_from_extension(R, ext) == name_from_ext(R, ext, "serialization_extensions")
compression_from_extension(R, ext) == name_from_ext(R, ext, "compression_extensions")
text_encoding_from_extension(R, ext) == name_from_ext(R, ext, "text_extensions")

\* mutant of CompOrText: the text encoding is tried first
CompOrText_TextFirst(R, part) ==
    LET Comp(c) == IF c.out = "ok" THEN Value(<<c.val, None>>) ELSE Raise(c.out)
        Text(t) ==
            IF t.out = "ok" THEN Value(<<None, t.val>>)
            ELSE Comp(compression_from_extension(R, part))
    IN  Text(text_encoding_from_extension(R, part))

\* the second part of a two-part extension: the compression when it is one,
\* and only on that lookup's ValueError the text encoding
CompOrText(R, part) ==
    LET Text(t) == IF t.out = "ok" THEN Value(<<None, t.val>>) ELSE Raise(t.out)
        Comp(c) ==
            IF c.out = "ok" THEN Value(<<c.val, None>>)
            ELSE Text(text_encoding_from_extension(R, part))
    IN  Comp(compression_from_extension(R, part))

\* IORegistry.pipeline_from_extension: <<serialization, compression, text_encoding>>
pipeline_from_extension(R, ext) ==
    LET Three(ser, c, t) ==
            IF c.out # "ok" THEN Raise(c.out)
            ELSE IF t.out # "ok" THEN Raise(t.out)
            ELSE Value(<<ser.val, c.val, t.val>>)
        Two(ser, ct) ==
            IF ct.out # "ok" THEN Raise(ct.out)
            ELSE Value(<<ser.val, ct.val[1], ct.val[2]>>)
        Rest(parts, ser) ==
            IF ser.out # "ok" THEN Raise(ser.out)
            ELSE IF Len(parts) = 1 THEN Value(<<ser.val, None, None>>)
            ELSE IF Len(parts) = 3
            THEN Three(ser, compression_from_extension(R, parts[2]),
                       text_encoding_from_extension(R, parts[3]))
            ELSE Two(ser, CompOrText(R, parts[2]))
        Parts(parts) ==
            IF Len(parts) > 3 THEN Raise("ValueError")
            ELSE Rest(parts, serialization_from_extension(R, parts[1]))
    IN  Parts(split(lstrip(ext)))

\* ------------------------------------------------------ FlexiblePersist
NoFacade == [exists |-> FALSE]

\* the constructor's arguments; the callers of the model leave load_kw,
\* compress_kw and decompress_kw at their default, None
FacadeArgs(serialization, compression, text_encoding, dump_kw, always_use_text_encoding) ==
    [serialization |-> serialization, compression |-> compression,
     text_encoding |-> text_encoding, dump_kw |-> dump_kw,
     always_use_text_encoding |-> always_use_text_encoding]

\* the compile_pipeline call of __init__ that passes text_encoding (lines 451, 472)
CallWithText(a) ==
    Call(FALSE, a.serialization, a.compression, a.text_encoding,
         a.dump_kw, None, None, None)

\* the compile_pipeline call of __init__ that does not (line 460)
CallWithoutText(a) ==
    Call(FALSE, a.serialization, a.compression, Omitted, a.dump_kw, None, None, None)

Facade(r, a, main, line, haveLine) ==
    [exists |-> TRUE, io_registry |-> r,
     serialization |-> a.serialization, compression |-> a.compression,
     text_encoding |-> a.text_encoding, mode |-> main.pipe.file_mode,
     always_use_text_encoding |-> a.always_use_text_encoding,
     dump |-> main.pipe.to_file, load |-> main.pipe.from_file,
     dumps |-> main.pipe.to_str, loads |-> main.pipe.from_str,
     to_line |-> IF haveLine THEN line.pipe.to_str ELSE NoneV,
     from_line |-> IF haveLine THEN line.pipe.from_str ELSE NoneV,
     text_io |-> haveLine,
     main_id |-> main.id, line_id |-> IF haveLine THEN line.id ELSE 0]

Built(f, c) == [out |-> "ok", facade |-> f, cache |-> c]
NotBuilt(e, c) == [out |-> e, facade |-> NoFacade, cache |-> c]

\* FlexiblePersist.__init__ on registry instance r
FlexiblePersist(c, rg, r, a) ==
    LET Line(m, l) ==
            IF l.out # "ok" THEN NotBuilt(l.out, l.cache)
            ELSE Built(Facade(r, a, m, l, TRUE), l.cache)
        Main(m) ==
            IF m.out # "ok" THEN NotBuilt(m.out, m.cache)
            ELSE IF a.always_use_text_encoding
            THEN Built(Facade(r, a, m, m, TRUE), m.cache)
            ELSE IF a.text_encoding = None
            THEN Built(Facade(r, a, m, m, m.pipe.file_mode = ""), m.cache)
            ELSE Line(m, cached_compile(m.cache, rg, r, CallWithText(a)))
    IN  IF a.always_use_text_encoding /\ a.text_encoding = None
        THEN NotBuilt("ValueError", c)
        ELSE Main(cached_compile(c, rg, r,
                      IF a.always_use_text_encoding THEN CallWithText(a)
                      ELSE CallWithoutText(a)))

\* mutant of from_extension: always_use_text_encoding is left at its default
from_extension_Default(c, rg, r, ext, dump_kw) ==
    LET From(p) ==
            IF p.out # "ok" THEN NotBuilt(p.out, c)
            ELSE FlexiblePersist(c, rg, r,
                     FacadeArgs(p.val[1], p.val[2], p.val[3], dump_kw, FALSE))
    IN  From(pipeline_from_extension(rg[r], ext))

\* FlexiblePersist.from_extension
from_extension(c, rg, r, ext, dump_kw) ==
    LET From(p) ==
            IF p.out # "ok" THEN NotBuilt(p.out, c)
            ELSE FlexiblePersist(c, rg, r,
                     FacadeArgs(p.val[1], p.val[2], p.val[3], dump_kw, p.val[3] # None))
    IN  From(pipeline_from_extension(rg[r], ext))

\* mutant of get_extension: the text extension is put before the compression's
get_extension_TextFirst(R, f, text) ==
    LET withText == text \/ f.always_use_text_encoding
    IN  Value(ExtGet(R, "serialization_extensions", f.serialization)
              \o (IF withText
                  THEN ExtGet(R, "text_extensions", f.text_encoding)
                  ELSE <<>>)
              \o (IF f.compression # None
                  THEN ExtGet(R, "compression_extensions", f.compression)
                  ELSE <<>>))

\* FlexiblePersist._get_extension: a missing key is a KeyError
get_extension(R, f, text) ==
    LET withText == text \/ f.always_use_text_encoding
    IN  IF ~ExtIn(R, "serialization_extensions", f.serialization)
        THEN Raise("KeyError")
        ELSE IF f.compression # None
                /\ ~ExtIn(R, "compression_extensions", f.compression)
        THEN Raise("KeyError")
        ELSE IF withText /\ ~ExtIn(R, "text_extensions", f.text_encoding)
        THEN Raise("KeyError")
        ELSE Value(ExtGet(R, "serialization_extensions", f.serialization)
                   \o (IF f.compression # None
                       THEN ExtGet(R, "compression_extensions", f.compression)
                       ELSE <<>>)
                   \o (IF withText
                       THEN ExtGet(R, "text_extensions", f.text_encoding)
                       ELSE <<>>))

\* the properties FlexiblePersist.extension and .text_extension
extension(R, f) == get_extension(R, f, FALSE)
text_extension(R, f) == get_extension(R, f, TRUE)

\* ------------------------------------------------------------ text files
\* The text of a file is a sequence of tokens: a character, or a str a codec
\* has produced (one token: it holds no separator and no line terminator).
Chr(c) == [chr |-> c]
NL == Chr("\n")
TAB == Chr("\t")

\* an object the serializers reject: encoding it raises
Unencodable == [base |-> "unencodable", layers |-> <<>>]
\* a str no decoder accepts: the empty str, or several tokens read as one
Garbled == [base |-> "garbled", layers |-> <<>>]

\* encode(x) for the to_line or dumps callable encode
Encode(encode, x) == IF x = Unencodable THEN Err ELSE Apply(encode, x)

\* the str a run of tokens is, as a decoder sees it
AsStr(toks) ==
    IF Len(toks) = 1 /\ "base" \in DOMAIN toks[1] THEN toks[1] ELSE Garbled

Sep == "/"

\* os.path.splitext(path)[1]: from the last dot of the last component, leading
\* dots of the component not counted
splitext(path) ==
    LET seps == {i \in 1..Len(path) : path[i] = Sep}
        start == IF seps = {} THEN 1
                 ELSE (CHOOSE i \in seps : \A j \in seps : j <= i) + 1
        dots == {i \in start..Len(path) :
                    path[i] = Dot /\ \E j \in start..(i - 1) : path[j] # Dot}
    IN  IF dots = {} THEN <<>>
        ELSE SubSeq(path, CHOOSE i \in dots : \A j \in dots : j <= i, Len(path))

\* _maybe_add_extension
maybe_add_extension(path, ext) ==
    IF splitext(path) = <<>> THEN path \o ext ELSE path

\* a file: its text, the position of the caller's stream in it, and (history)
\* the call that wrote it
File(txt, pos, src) == [text |-> txt, pos |-> pos, src |-> src]

\* the key of the open text stream a caller passes instead of a path
StreamKey == <<"<stream>">>

Path(p) == [kind |-> "path", path |-> p]
Stream == [kind |-> "stream", path |-> StreamKey]

RECURSIVE linesAcc(_, _, _)
linesAcc(txt, cur, acc) ==
    IF txt = <<>> THEN (IF cur = <<>> THEN acc ELSE Append(acc, cur))
    ELSE IF Head(txt) = NL THEN linesAcc(Tail(txt), <<>>, Append(acc, Append(cur, NL)))
    ELSE linesAcc(Tail(txt), Append(cur, Head(txt)), acc)

\* `for line in file`: the lines of the text, each with its terminator
lines(txt) == linesAcc(txt, <<>>, <<>>)

RECURSIVE rstrip(_)
\* line.rstrip('\n')
rstrip(line) ==
    IF line # <<>> /\ line[Len(line)] = NL
    THEN rstrip(SubSeq(line, 1, Len(line) - 1)) ELSE line

RECURSIVE Flat(_)
\* the tokens of a sequence of lines
Flat(ls) == IF ls = <<>> THEN <<>> ELSE Head(ls) \o Flat(Tail(ls))

\* mutant of text_methods: only the mode decides
text_methods_ModeOnly(F) ==
    IF F.mode = "b" THEN Raise("NoTextIOMethodsAvailable") ELSE Value("_TextIOMethods")

\* the property FlexiblePersist.text
text_methods(F) ==
    IF ~F.text_io THEN Raise("NoTextIOMethodsAvailable") ELSE Value("_TextIOMethods")

\* how a call on files ended: the file system it leaves and the files it has
\* opened from a path and not closed
Ended(out, fsys, open) == [out |-> out, fs |-> fsys, open |-> open]

\* the path a text method opens: file, or file with the text extension added
TextPath(R, F, target, auto_extension) ==
    LET Added(ext) ==
            IF ext.out # "ok" THEN ext
            ELSE Value(maybe_add_extension(target.path, ext.val))
    IN  IF target.kind = "stream" \/ ~auto_extension THEN Value(target.path)
        ELSE Added(text_extension(R, F))

RECURSIVE WriteLines(_, _, _)
\* for line in map(encode, iterable): file.write(line); file.write('\n')
WriteLines(encode, items, written) ==
    IF items = <<>> THEN [out |-> "ok", text |-> written]
    ELSE IF Encode(encode, Head(items)) = Err THEN [out |-> "Error", text |-> written]
    ELSE WriteLines(encode, Tail(items),
                    written \o <<Encode(encode, Head(items)), NL>>)

\* what a writing call leaves: the file under key with the text written to it;
\* a path is closed only when the loop has not raised
Wrote(fsys, target, key, w, src) ==
    Ended(w.out,
          Put(fsys, key, File(w.text,
                              IF target.kind = "stream" THEN Len(w.text) ELSE 0,
                              [src EXCEPT !.complete = (w.out = "ok")])),
          IF target.kind = "path" /\ w.out # "ok" THEN {key} ELSE {})

\* _TextIOMethods.dump_stream_to_file; a stream passed by the caller is new and
\* empty
dump_stream_to_file(F, R, fsys, items, target, auto_extension) ==
    LET Opened(p) ==
            IF p.out # "ok" THEN Ended(p.out, fsys, {})
            ELSE Wrote(fsys, target, p.val, WriteLines(F.to_line, items, <<>>),
                       [op |-> "dump_stream_to_file", items |-> items,
                        complete |-> FALSE])
    IN  Opened(TextPath(R, F, target, auto_extension))

RECURSIVE ReadLines(_, _, _, _)
\* the first `take` items of (decode(line.rstrip('\n')) for line in file)
ReadLines(decode, ls, take, got) ==
    IF take = 0 THEN [out |-> "ok", vals |-> got, left |-> ls, exhausted |-> FALSE]
    ELSE IF ls = <<>>
    THEN [out |-> "ok", vals |-> got, left |-> ls, exhausted |-> TRUE]
    ELSE IF Apply(decode, AsStr(rstrip(Head(ls)))) = Err
    THEN [out |-> "Error", vals |-> got, left |-> Tail(ls), exhausted |-> FALSE]
    ELSE ReadLines(decode, Tail(ls), take - 1,
                   Append(got, Apply(decode, AsStr(rstrip(Head(ls))))))

\* how the consumption of a lazy sequence ended
Taken(out, vals, exhausted, fsys, open) ==
    [out |-> out, vals |-> vals, exhausted |-> exhausted, fs |-> fsys, open |-> open]

\* what a reading call leaves: the stream's position after the lines consumed;
\* a path is closed only when the sequence has been exhausted
Consumed(fsys, target, key, r) ==
    Taken(r.out, r.vals, r.exhausted,
          IF target.kind = "stream"
          THEN [fsys EXCEPT ![key].pos = Len(fsys[key].text) - Len(Flat(r.left))]
          ELSE fsys,
          IF target.kind = "path" /\ ~r.exhausted THEN {key} ELSE {})

\* _TextIOMethods.load_stream_from_file, a generator, consumed by a caller that
\* asks for `take` items: the body starts with the first request and ends
\* (closing the file) with the request after the last line
load_stream_from_file(F, R, fsys, target, auto_extension, take) ==
    LET Opened(p) ==
            IF p.out # "ok" THEN Taken(p.out, <<>>, FALSE, fsys, {})
            ELSE IF p.val \notin DOMAIN fsys
            THEN Taken("FileNotFoundError", <<>>, FALSE, fsys, {})
            ELSE Consumed(fsys, target, p.val,
                     ReadLines(F.from_line,
                               lines(SubSeq(fsys[p.val].text, fsys[p.val].pos + 1,
                                            Len(fsys[p.val].text))),
                               take, <<>>))
    IN  IF take = 0 THEN Taken("ok", <<>>, FALSE, fsys, {})
        ELSE Opened(TextPath(R, F, target, auto_extension))

\* a key as the object the encoder is given when encode_keys is set
KeyObj(k) == [base |-> k, layers |-> <<>>]

\* '{}'.format(k) for the key k, or for encode(k)
KeyText(encode, k, encode_keys) ==
    IF encode_keys THEN <<Encode(encode, KeyObj(k))>> ELSE k

RECURSIVE WriteKeyed(_, _, _, _, _)
\* for line in (template.format(k, encode(v)) for k, v in iterable): file.write(line)
\* with template = '{}' + sep + '{}\n'
WriteKeyed(encode, pairs, sep, encode_keys, written) ==
    IF pairs = <<>> THEN [out |-> "ok", text |-> written]
    ELSE IF Encode(encode, Head(pairs)[2]) = Err
            \/ (encode_keys /\ Encode(encode, KeyObj(Head(pairs)[1])) = Err)
    THEN [out |-> "Error", text |-> written]
    ELSE WriteKeyed(encode, Tail(pairs), sep, encode_keys,
                    written \o KeyText(encode, Head(pairs)[1], encode_keys) \o sep
                            \o <<Encode(encode, Head(pairs)[2]), NL>>)

\* _TextIOMethods.dump_keyed_stream_to_file
dump_keyed_stream_to_file(F, R, fsys, pairs, target, encode_keys, sep, auto_extension) ==
    LET Opened(p) ==
            IF p.out # "ok" THEN Ended(p.out, fsys, {})
            ELSE Wrote(fsys, target, p.val,
                       WriteKeyed(F.to_line, pairs, sep, encode_keys, <<>>),
                       [op |-> "dump_keyed_stream_to_file", items |-> pairs,
                        sep |-> sep, encode_keys |-> encode_keys,
                        complete |-> FALSE])
    IN  Opened(TextPath(R, F, target, auto_extension))

\* line.index(sep_): the least offset at which sep_ occurs, -1 for ValueError
index(line, sep) ==
    LET at == {i \in 0..(Len(line) - Len(sep)) : SubSeq(line, i + 1, i + Len(sep)) = sep}
    IN  IF at = {} THEN -1 ELSE CHOOSE i \in at : \A j \in at : i <= j

\* read_items: line[:ix], line[ix+1:]
read_item(line, sep) ==
    <<SubSeq(line, 1, index(line, sep)), SubSeq(line, index(line, sep) + 2, Len(line))>>

RECURSIVE ReadKeyed(_, _, _, _, _, _)
\* the first `take` items of load_keyed_stream_from_file's loop over read_items
ReadKeyed(decode, ls, sep, decode_keys, take, got) ==
    LET Yield(kv, k, v) ==
            IF v = Err \/ (decode_keys /\ k = Err)
            THEN [out |-> "Error", vals |-> got, left |-> Tail(ls), exhausted |-> FALSE]
            ELSE ReadKeyed(decode, Tail(ls), sep, decode_keys, take - 1,
                           Append(got, <<IF decode_keys THEN k.base ELSE kv[1], v>>))
        Item(kv) == Yield(kv, Apply(decode, AsStr(kv[1])), Apply(decode, AsStr(kv[2])))
    IN  IF take = 0 THEN [out |-> "ok", vals |-> got, left |-> ls, exhausted |-> FALSE]
        ELSE IF ls = <<>>
        THEN [out |-> "ok", vals |-> got, left |-> ls, exhausted |-> TRUE]
        ELSE IF index(rstrip(Head(ls)), sep) < 0
        THEN [out |-> "ValueError", vals |-> got, left |-> Tail(ls), exhausted |-> FALSE]
        ELSE Item(read_item(rstrip(Head(ls)), sep))

\* _TextIOMethods.load_keyed_stream_from_file, a generator, consumed by a caller
\* that asks for `take` items
load_keyed_stream_from_file(F, R, fsys, target, decode_keys, sep, auto_extension, take) ==
    LET Opened(p) ==
            IF p.out # "ok" THEN Taken(p.out, <<>>, FALSE, fsys, {})
            ELSE IF p.val \notin DOMAIN fsys
            THEN Taken("FileNotFoundError", <<>>, FALSE, fsys, {})
            ELSE Consumed(fsys, target, p.val,
                     ReadKeyed(F.from_line,
                               lines(SubSeq(fsys[p.val].text, fsys[p.val].pos + 1,
                                            Len(fsys[p.val].text))),
                               sep, decode_keys, take, <<>>))
    IN  IF take = 0 THEN Taken("ok", <<>>, FALSE, fsys, {})
        ELSE Opened(TextPath(R, F, target, auto_extension))

\* ------------------------------------------------- files and directories
\* mutant of ToFile: the str is written in two calls of write
ToFile_TwoWrites(to_file, obj) ==
    IF to_file[1].op = "StreamSerializer"
    THEN <<Encode(to_file[1].inner, obj), Encode(to_file[1].inner, obj)>>
    ELSE IF to_file[1].op = "dump"
    THEN <<Encode(<<[to_file[1] EXCEPT !.op = "dumps"]>>, obj)>>
    ELSE <<Err>>

\* to_file(obj, f) for the _dump callable of a facade: what it writes to f
ToFile(to_file, obj) ==
    IF to_file[1].op = "StreamSerializer" THEN <<Encode(to_file[1].inner, obj)>>
    ELSE IF to_file[1].op = "dump"
    THEN <<Encode(<<[to_file[1] EXCEPT !.op = "dumps"]>>, obj)>>
    ELSE <<Err>>

\* from_file(f) for the _load callable of a facade, f holding the tokens toks
FromFile(from_file, toks) ==
    IF from_file[1].op = "StreamDeserializer" THEN Apply(from_file[1].inner, AsStr(toks))
    ELSE IF from_file[1].op = "load"
    THEN Apply(<<[from_file[1] EXCEPT !.op = "loads"]>>, AsStr(toks))
    ELSE Err

\* os.path.join(a, b)
join(a, b) ==
    IF b # <<>> /\ Head(b) = Sep THEN b
    ELSE IF a = <<>> \/ a[Len(a)] = Sep THEN a \o b
    ELSE a \o <<Sep>> \o b

Digit == <<"0", "1", "2", "3", "4", "5", "6", "7", "8", "9">>
IsDigit(t) == \E d \in 1..Len(Digit) : Digit[d] = t
DigitValue(t) == (CHOOSE d \in 1..Len(Digit) : Digit[d] = t) - 1

RECURSIVE str(_)
\* str(i) for a natural number: its decimal digits
str(i) ==
    IF i < Len(Digit) THEN <<Digit[i + 1]>>
    ELSE str(i \div Len(Digit)) \o <<Digit[(i % Len(Digit)) + 1]>>

\* s.rjust(width, '0')
rjust(s, width) ==
    IF Len(s) >= width THEN s ELSE [i \in 1..(width - Len(s)) |-> Digit[1]] \o s

RECURSIVE int(_)
\* int(k) for a str of decimal digits
int(k) ==
    IF k = <<>> THEN 0
    ELSE int(SubSeq(k, 1, Len(k) - 1)) * Len(Digit) + DigitValue(k[Len(k)])

\* the order of sorted(fs, key=itemgetter(0)) on keys made by key_type=int
key_leq(a, b) == int(a) <= int(b)

\* the directory of the model and its marker in the file system
Dir == <<"d">>
IsDir(fsys, d) == d \in DOMAIN fsys /\ fsys[d].src.op \in {"mkdir", "dump_stream_to_dir"}

\* os.listdir(dir_): the names in the directory
listdir(fsys, d) ==
    {SubSeq(f, Len(d) + 2, Len(f)) :
        f \in {f \in DOMAIN fsys : Len(f) > Len(d) + 1 /\ SubSeq(f, 1, Len(d) + 1) = d \o <<Sep>>}}

\* pat.fullmatch(name) for pat = re.escape(prefix) + "(?P<k>[0-9]+)" + re.escape(ext):
\* the group k, or <<>> for no match
fullmatch(prefix, ext, name) ==
    LET k == SubSeq(name, Len(prefix) + 1, Len(name) - Len(ext))
    IN  IF /\ Len(name) > Len(prefix) + Len(ext)
           /\ SubSeq(name, 1, Len(prefix)) = prefix
           /\ SubSeq(name, Len(name) - Len(ext) + 1, Len(name)) = ext
           /\ \A i \in 1..Len(k) : IsDigit(k[i])
        THEN k ELSE <<>>

\* the (key, path) pairs of the names that match
Matches(fsys, d, prefix, ext) ==
    {<<fullmatch(prefix, ext, name), join(d, name)>> :
        name \in {n \in listdir(fsys, d) : fullmatch(prefix, ext, n) # <<>>}}

RECURSIVE sorted(_)
\* sorted(fs, key=itemgetter(0)) for keys that differ
sorted(ms) ==
    IF ms = {} THEN <<>>
    ELSE LET least == CHOOSE m \in ms : \A o \in ms : key_leq(m[1], o[1])
         IN  <<least>> \o sorted(ms \ {least})

LBrace == "{"
RBrace == "}"

RECURSIVE formatAcc(_, _, _, _)
\* str.format with one positional argument k, from the left: "{{" and "}}" are
\* the braces themselves, "{}" is the next positional argument, a brace that
\* stands alone is a ValueError; a field that is named or numbered cannot be
\* mixed with the "{}" of the template
formatAcc(t, k, used, acc) ==
    IF t = <<>> THEN Value(acc)
    ELSE IF Head(t) = LBrace
    THEN IF Len(t) = 1 THEN Raise("ValueError")
         ELSE IF t[2] = LBrace THEN formatAcc(SubSeq(t, 3, Len(t)), k, used, Append(acc, LBrace))
         ELSE IF t[2] = RBrace
         THEN IF used THEN Raise("IndexError")
              ELSE formatAcc(SubSeq(t, 3, Len(t)), k, TRUE, acc \o k)
         ELSE Raise("ValueError")
    ELSE IF Head(t) = RBrace
    THEN IF Len(t) > 1 /\ t[2] = RBrace
         THEN formatAcc(SubSeq(t, 3, Len(t)), k, used, Append(acc, RBrace))
         ELSE Raise("ValueError")
    ELSE formatAcc(Tail(t), k, used, Append(acc, Head(t)))

\* template.format(k)
format(template, k) == formatAcc(template, k, FALSE, <<>>)

RECURSIVE DumpEach(_, _, _, _, _, _)
\* for k, v in items: with open(template.format(k), 'w' + mode) as outfile: _dump(v, outfile)
\* for items = enumerate(iterable) with the index right-justified
DumpEach(F, fsys, template, objs, i, ndigits) ==
    LET Opened(path) ==
            IF path.out # "ok" THEN Ended(path.out, fsys, {})
            ELSE IF ToFile(F.dump, objs[i]) = <<Err>> THEN Ended("Error", fsys, {})
            ELSE DumpEach(F,
                          Put(fsys, path.val,
                              File(ToFile(F.dump, objs[i]), 0, [op |-> "dump"])),
                          template, objs, i + 1, ndigits)
    IN  IF i > Len(objs) THEN Ended("ok", fsys, {})
        ELSE Opened(format(template, rjust(str(i - 1), ndigits)))

\* FlexiblePersist.dump_stream_to_dir (ensure_dir, then one file per item)
dump_stream_to_dir(F, R, fsys, objs, d, prefix, ndigits) ==
    LET src(ext) == [op |-> "dump_stream_to_dir", items |-> objs, prefix |-> prefix,
                     ndigits |-> ndigits,
                     clean |-> Matches(fsys, d, prefix, ext) = {},
                     complete |-> FALSE]
        Marked(ext, res) ==
            Ended(res.out,
                  [res.fs EXCEPT ![d].src = [src(ext) EXCEPT !.complete = (res.out = "ok")]],
                  res.open)
        Made(ext, fsys2) ==
            Marked(ext, DumpEach(F, fsys2, join(d, prefix) \o <<LBrace, RBrace>> \o ext,
                                  objs, 1, ndigits))
        Ensured(ext) ==
            IF ext.out # "ok" THEN Ended(ext.out, fsys, {})
            ELSE IF d \in DOMAIN fsys /\ ~IsDir(fsys, d)
            THEN Ended("FileExistsError", fsys, {})
            ELSE Made(ext.val,
                      IF d \in DOMAIN fsys THEN fsys
                      ELSE Put(fsys, d, File(<<>>, 0, [op |-> "mkdir"])))
    IN  Ensured(extension(R, F))

\* FlexiblePersist.load_stream_from_dir: the iterator it returns, over the paths
\* that matched when it was called
load_stream_from_dir(F, R, fsys, d, prefix) ==
    LET Listed(ext) ==
            IF ext.out # "ok" THEN [out |-> ext.out, rest |-> <<>>]
            ELSE IF ~IsDir(fsys, d) THEN [out |-> "FileNotFoundError", rest |-> <<>>]
            ELSE [out |-> "ok",
                  rest |-> [i \in 1..Cardinality(Matches(fsys, d, prefix, ext.val)) |->
                                sorted(Matches(fsys, d, prefix, ext.val))[i][2]]]
    IN  Listed(extension(R, F))

\* mutant of drop: the iterator starts over
drop_None(rest, n) == rest

\* what is left of a generator that has yielded n elements
drop(rest, n) == SubSeq(rest, n + 1, Len(rest))

RECURSIVE LoadEach(_, _, _, _)
\* (load(f) for k, f in fs), consumed to its end: each file is opened, read and
\* closed in turn
LoadEach(F, fsys, rest, got) ==
    IF rest = <<>> THEN [out |-> "ok", vals |-> got]
    ELSE IF Head(rest) \notin DOMAIN fsys THEN [out |-> "FileNotFoundError", vals |-> got]
    ELSE IF FromFile(F.load, fsys[Head(rest)].text) = Err
    THEN [out |-> "Error", vals |-> got]
    ELSE LoadEach(F, fsys, Tail(rest),
                  Append(got, FromFile(F.load, fsys[Head(rest)].text)))

\* --------------------------------------------------- the calls of the model
RegIds == {"default", "r2"}

\* what a caller passes for a callable parameter
Arg(tag, f) ==
    IF tag = "fn" THEN f ELSE IF tag = "bad" THEN NotCallableV ELSE NoneV

AllFn == <<"fn", "fn", "fn", "fn">>

RegCall(kind, name, ext, form, binary) ==
    [kind |-> kind, name |-> name, extension |-> ext, form |-> form,
     binary |-> binary]

\* register_serializer calls; form is
\* <<serializer, deserializer, stream_serializer, stream_deserializer>>
SerializerCalls ==
    { RegCall("serializer", "yaml", <<"yaml">>, AllFn, FALSE),
      RegCall("serializer", "yaml", <<"yaml">>, <<"fn", "fn", "none", "none">>, TRUE),
      RegCall("serializer", "yaml", <<Dot, "json">>, <<"fn", "fn", "fn", "bad">>, TRUE),
      RegCall("serializer", "yaml", <<"yaml">>, <<"bad", "fn", "fn", "fn">>, TRUE),
      RegCall("serializer", "json", <<"json">>, AllFn, TRUE),
      RegCall("serializer", "json", <<"json">>, AllFn, FALSE),
      RegCall("serializer", "pickle", <<"pkl">>, AllFn, TRUE) }

\* register_compressor calls; form is <<compressor, decompressor>>
CompressorCalls ==
    { RegCall("compressor", "zip", <<"zip">>, <<"fn", "fn">>, TRUE),
      RegCall("compressor", "zip", <<Dot, "lz4">>, <<"fn", "fn">>, TRUE),
      RegCall("compressor", "zip", <<"tar", Dot, "gz">>, <<"fn", "fn">>, TRUE),
      RegCall("compressor", "zip", <<"zip">>, <<"fn", "none">>, TRUE),
      RegCall("compressor", "lz4", <<"lz4">>, <<"fn", "fn">>, TRUE) }

\* register_text_encoder calls; form is <<encoder, decoder>>
TextEncoderCalls ==
    { RegCall("text_encoder", "hex", <<"hex">>, <<"fn", "fn">>, FALSE),
      RegCall("text_encoder", "hex", <<"lz4">>, <<"fn", "fn">>, TRUE),
      RegCall("text_encoder", "hex", <<"hex">>, <<"bad", "fn">>, TRUE),
      RegCall("text_encoder", "base64", <<"b64">>, <<"fn", "fn">>, TRUE) }

RegCalls == SerializerCalls \cup CompressorCalls \cup TextEncoderCalls

\* the registrations that bring a new, well-formed codec
CodecCalls ==
    { RegCall("serializer", "yaml", <<"yaml">>, AllFn, FALSE),
      RegCall("compressor", "zip", <<"zip">>, <<"fn", "fn">>, TRUE),
      RegCall("text_encoder", "hex", <<"hex">>, <<"fn", "fn">>, FALSE) }

SerGroup(binary) == IF binary THEN "bin" ELSE "text"

\* the call c made on the registry object R of instance r
DoRegister(r, R, c) ==
    IF c.kind = "serializer"
    THEN LET k == UserCodec(r, SerGroup(c.binary), c.name, ~c.binary)
         IN  register_serializer(R, c.name, c.extension,
                 Arg(c.form[1], Fn("dumps", k)), Arg(c.form[2], Fn("loads", k)),
                 Arg(c.form[3], Fn("dump", k)), Arg(c.form[4], Fn("load", k)),
                 c.binary)
    ELSE IF c.kind = "compressor"
    THEN LET k == UserCodec(r, "comp", c.name, FALSE)
         IN  register_compressor(R, c.name, Arg(c.form[1], Fn("compress", k)),
                 Arg(c.form[2], Fn("decompress", k)), c.extension)
    ELSE LET k == UserCodec(r, "tenc", c.name, ~c.binary)
         IN  register_text_encoder(R, c.name, c.extension,
                 Arg(c.form[1], Fn("encode", k)), Arg(c.form[2], Fn("decode", k)),
                 c.binary)

\* registrations that have succeeded, over all instances
NRegs(rg) ==
    LET n(R) == Cardinality(DOMAIN R.dumpers) + Cardinality(DOMAIN R.text_dumpers)
                + Cardinality(DOMAIN R.compressors)
                + Cardinality(DOMAIN R.text_encoders)
        RECURSIVE sum(_)
        sum(S) == IF S = {} THEN 0
                  ELSE LET r == CHOOSE x \in S : TRUE IN n(rg[r]) + sum(S \ {r})
    IN  sum(RegIds)

\* the effect of a register_* call: a failed call changes nothing
Registered(r, c, res) ==
    /\ res.out = "ok" => NRegs(reg) < MaxRegs
    /\ reg' = [reg EXCEPT ![r] = res.R]
    /\ ret' = [op |-> "register", reg |-> r, call |-> c, out |-> res.out]
    /\ UNCHANGED <<cache, facade, failed>>
    /\ UNCHANGED iovars

RegisterSerializer(regs, calls) ==
    \E r \in regs, c \in calls :
        /\ c.kind = "serializer"
        /\ Registered(r, c, DoRegister(r, reg[r], c))

RegisterCompressor(regs, calls) ==
    \E r \in regs, c \in calls :
        /\ c.kind = "compressor"
        /\ Registered(r, c, DoRegister(r, reg[r], c))

RegisterTextEncoder(regs, calls) ==
    \E r \in regs, c \in calls :
        /\ c.kind = "text_encoder"
        /\ Registered(r, c, DoRegister(r, reg[r], c))

\* compile_pipeline calls: compile_pipeline("json"), the same with the absent
\* stages passed as None, codecs that may be registered later, keyword options
CompileCalls ==
    { Call(TRUE, "json", Omitted, Omitted, Omitted, Omitted, Omitted, Omitted),
      Call(FALSE, "json", None, Omitted, None, None, None, None),
      Call(FALSE, "json", None, None, None, None, None, None),
      Call(FALSE, "yaml", Omitted, Omitted, Omitted, Omitted, Omitted, Omitted),
      Call(FALSE, "pickle", "zip", Omitted, Omitted, Omitted, Omitted, Omitted),
      Call(FALSE, "json", Omitted, "hex", Omitted, Omitted, Omitted, Omitted),
      Call(FALSE, "json", "lz4", Omitted, "dict", Omitted, Omitted, Omitted),
      Call(FALSE, "json", "lz4", Omitted, "frozen", Omitted, "frozen", Omitted),
      Call(FALSE, "xml", Omitted, Omitted, Omitted, Omitted, Omitted, Omitted) }

\* what an unknown name raises: KeyError from is_binary_serialization,
\* ValueError from _get_lambda
UnknownCodecErrors == {"KeyError", "ValueError"}

\* a call of registry.compile_pipeline(...)
CompilePipeline(regs) ==
    \E r \in regs, call \in CompileCalls :
        LET Returned(res) ==
                /\ Cardinality(DOMAIN res.cache) <= MaxCache
                /\ cache' = res.cache
                /\ ret' = [op |-> "compile_pipeline", reg |-> r, call |-> call,
                           out |-> res.out, id |-> res.id, hit |-> res.hit]
                /\ failed' = IF res.out \in UnknownCodecErrors
                             THEN failed \cup {CacheKey(r, call)} ELSE failed
                /\ UNCHANGED <<reg, facade>>
                /\ UNCHANGED iovars
        IN  Returned(cached_compile(cache, reg, r, call))

\* no file, nothing open, no iterator, no write in progress
NoIterator ==
    [made |-> FALSE, rest |-> <<>>, passes |-> 0, first |-> <<>>, prefix |-> <<>>,
     src |-> [op |-> "none"]]
NoWrite == [pc |-> "idle"]

NoIO ==
    /\ files = [k \in {} |-> [text |-> <<>>, pos |-> 0, src |-> [op |-> "none"]]]
    /\ opened = {}
    /\ it = NoIterator
    /\ mac = NoWrite

\* DefaultIORegistry = IORegistry(), and a second instance
Init ==
    /\ reg = [r \in RegIds |-> NewRegistry(DEFAULT_TEXT_ENCODING)]
    /\ cache = [k \in {} |-> NoPipe]
    /\ facade = NoFacade
    /\ ret = [op |-> "init", out |-> "ok"]
    /\ failed = {}
    /\ NoIO

\* FlexiblePersist(...) calls
ConstructCalls ==
    { FacadeArgs("pickle", None, None, None, FALSE),
      FacadeArgs("pickle", "lz4", None, None, FALSE),
      FacadeArgs("pickle", "zip", None, None, FALSE),
      FacadeArgs("json", None, "base64", None, FALSE),
      FacadeArgs("json", None, "base64", None, TRUE),
      FacadeArgs("json", None, "hex", None, TRUE),
      FacadeArgs("xml", None, None, None, FALSE),
      FacadeArgs("xml", None, None, "dict", FALSE) }

\* the ext argument of pipeline_from_extension
ExtInputs ==
    { <<Dot, "json", Dot, "lz4">>, <<Dot, "json", Dot, "base64">>,
      <<Dot, "json", Dot, "b64">>, <<"pkl">>, <<Dot, "pkl", Dot, "lz4", Dot, "b64">>,
      <<Dot, "xml">>, <<Dot, "pkl", Dot, "tar", Dot, "gz">>,
      <<Dot, "json", Dot, "lz4", Dot, "b64", Dot, "x">> }

\* the ext argument of from_extension
FacadeExts ==
    { <<Dot, "json", Dot, "lz4">>, <<Dot, "json", Dot, "b64">>,
      <<Dot, "pkl", Dot, "lz4", Dot, "b64">>, <<Dot, "xml">> }

\* the registrations that touch the extension tables
ExtensionCalls ==
    { RegCall("compressor", "zip", <<Dot, "lz4">>, <<"fn", "fn">>, TRUE),
      RegCall("compressor", "zip", <<"tar", Dot, "gz">>, <<"fn", "fn">>, TRUE),
      RegCall("text_encoder", "hex", <<"lz4">>, <<"fn", "fn">>, TRUE),
      RegCall("serializer", "json", <<"js">>, AllFn, TRUE) }

\* obj = FlexiblePersist(..., _io_registry=r)
Construct(regs) ==
    \E r \in regs, a \in ConstructCalls :
        LET Returned(res) ==
                /\ Cardinality(DOMAIN res.cache) <= MaxCache
                /\ cache' = res.cache
                /\ facade' = res.facade
                /\ ret' = [op |-> "FlexiblePersist", reg |-> r, args |-> a,
                           out |-> res.out]
                /\ UNCHANGED <<reg, failed>>
                /\ UNCHANGED iovars
        IN  Returned(FlexiblePersist(cache, reg, r, a))

\* obj = FlexiblePersist.from_extension(ext, _io_registry=r)
FromExtension(regs) ==
    \E r \in regs, ext \in FacadeExts :
        LET Returned(res) ==
                /\ Cardinality(DOMAIN res.cache) <= MaxCache
                /\ cache' = res.cache
                /\ facade' = res.facade
                /\ ret' = [op |-> "from_extension", reg |-> r, ext |-> ext,
                           out |-> res.out]
                /\ UNCHANGED <<reg, failed>>
                /\ UNCHANGED iovars
        IN  Returned(from_extension(cache, reg, r, ext, None))

\* r.pipeline_from_extension(ext)
PipelineFromExtension(regs) ==
    \E r \in regs, ext \in ExtInputs :
        LET Returned(res) ==
                /\ ret' = [op |-> "pipeline_from_extension", reg |-> r, ext |-> ext,
                           out |-> res.out, val |-> res.val]
                /\ UNCHANGED <<reg, cache, facade, failed>>
                /\ UNCHANGED iovars
        IN  Returned(pipeline_from_extension(reg[r], ext))

\* the codecs a caller has registered before compiling: a text and a binary
\* serializer, a compressor, a text encoder that returns str and one that
\* returns bytes
SetupCalls ==
    << RegCall("serializer", "yaml", <<"yaml">>, AllFn, FALSE),
       RegCall("serializer", "cbor", <<"cbor">>, AllFn, TRUE),
       RegCall("compressor", "zip", <<"zip">>, <<"fn", "fn">>, TRUE),
       RegCall("text_encoder", "hex", <<"hex">>, <<"fn", "fn">>, FALSE),
       RegCall("text_encoder", "b58", <<"b58">>, <<"fn", "fn">>, TRUE) >>

RECURSIVE RegisterAll(_, _, _)
\* the registry object after the calls of a sequence, made in order
RegisterAll(r, R, calls) ==
    IF calls = <<>> THEN R
    ELSE RegisterAll(r, DoRegister(r, R, Head(calls)).R, Tail(calls))

SerializationArgs == {"pickle", "json", "yaml", "cbor", "xml"}
CompressionArgs == {None, "lz4", "zip"}
TextEncodingArgs == {None, "base64", "hex", "b58"}

\* to_str, from_str, _, _, _ = r.compile_pipeline(S, compression=C, text_encoding=T)
\* followed by from_str(to_str(x))
RoundTrip ==
    \E r \in RegIds, S \in SerializationArgs, C \in CompressionArgs,
       T \in TextEncodingArgs, x \in Objects :
        LET Read(call, res, text) ==
                /\ ret' = [op |-> "roundtrip", reg |-> r, call |-> call,
                           out |-> res.out, x |-> x,
                           text |-> IF res.out = "ok" THEN text ELSE Err,
                           back |-> IF res.out = "ok"
                                    THEN Apply(res.pipe.from_str, text) ELSE Err,
                           written |-> IF res.out = "ok"
                                       THEN ToFile(res.pipe.to_file, Obj(x)) ELSE <<>>,
                           read |-> IF res.out = "ok"
                                    THEN FromFile(res.pipe.from_file,
                                                  ToFile(res.pipe.to_file, Obj(x)))
                                    ELSE Err]
                /\ UNCHANGED <<reg, cache, facade, failed>>
                /\ UNCHANGED iovars
            Written(call, res) == Read(call, res, Apply(res.pipe.to_str, Obj(x)))
            Called(R, call) == Written(call, compile_pipeline(R, Params(call)))
        IN  Called(reg[r], Call(TRUE, S, C, T, Omitted, Omitted, Omitted, Omitted))

\* the default registry after SetupCalls, and a second instance left as created
InitRoundTrip ==
    /\ reg = [r \in RegIds |->
                IF r = "default"
                THEN RegisterAll(r, NewRegistry(DEFAULT_TEXT_ENCODING), SetupCalls)
                ELSE NewRegistry(DEFAULT_TEXT_ENCODING)]
    /\ cache = [k \in {} |-> NoPipe]
    /\ facade = NoFacade
    /\ ret = [op |-> "init", out |-> "ok"]
    /\ failed = {}
    /\ NoIO

\* compile_pipeline as a function of the registry and (S, C, T)
SpecRoundTrip == InitRoundTrip /\ [][RoundTrip]_vars

\* the registry alone: DefaultIORegistry and a second instance
NextRegistry ==
    \/ RegisterSerializer(RegIds, RegCalls)
    \/ RegisterCompressor(RegIds, RegCalls)
    \/ RegisterTextEncoder(RegIds, RegCalls)

SpecRegistry == Init /\ [][NextRegistry]_vars

\* the instance the compiler and the facades of the model work on
DefaultIORegistry == {"default"}

\* the registry and the memoized compiler
NextCompile ==
    \/ RegisterSerializer(DefaultIORegistry, CodecCalls)
    \/ RegisterCompressor(DefaultIORegistry, CodecCalls)
    \/ RegisterTextEncoder(DefaultIORegistry, CodecCalls)
    \/ CompilePipeline(DefaultIORegistry)

SpecCompile == Init /\ [][NextCompile]_vars

\* the registry and the extension resolver
NextResolve ==
    \/ RegisterSerializer(RegIds, ExtensionCalls)
    \/ RegisterCompressor(RegIds, ExtensionCalls)
    \/ RegisterTextEncoder(RegIds, ExtensionCalls)
    \/ PipelineFromExtension(RegIds)

SpecResolve == Init /\ [][NextResolve]_vars

\* the registry and the construction of facades
NextFacade ==
    \/ RegisterSerializer(DefaultIORegistry, ExtensionCalls)
    \/ RegisterCompressor(DefaultIORegistry, ExtensionCalls)
    \/ RegisterTextEncoder(DefaultIORegistry, ExtensionCalls)
    \/ Construct(DefaultIORegistry)
    \/ FromExtension(DefaultIORegistry)

SpecFacade == Init /\ [][NextFacade]_vars

\* ------------------------------------------ get_serializer, get_deserializer
\* dict_.get(key) on a class-level table
ClassGet(t, k) == IF k \in DOMAIN Class[t] THEN Class[t][k] ELSE NoneV

\* _get_lambda on a class-level table: None is a ValueError
ClassLambda(t, k) ==
    IF ClassGet(t, k) = NoneV THEN Raise("ValueError") ELSE Value(ClassGet(t, k))

\* IORegistry.get_serializer: registry = self._dumpers if string else self._file_dumpers
get_serializer(R, serialization, string) ==
    ClassLambda(IF string THEN "dumpers" ELSE "file_dumpers", serialization)

\* IORegistry.get_deserializer: registry = self._dumpers if string else self._file_dumpers
get_deserializer(R, serialization, string) ==
    ClassLambda(IF string THEN "dumpers" ELSE "file_dumpers", serialization)

\* the names a caller asks for
LookupNames == {"pickle", "json", "yaml", "xml"}

\* ser = r.get_serializer(name, string); deser = r.get_deserializer(name, string);
\* deser(ser(x)) for the string form
GetSerializers(regs) ==
    \E r \in regs, name \in LookupNames, string \in BOOLEAN, x \in Objects :
        LET Applied(ser, deser, s) ==
                /\ ret' = [op |-> "get_serializer", reg |-> r, name |-> name,
                           string |-> string, x |-> x,
                           ser |-> ser.out, deser |-> deser.out,
                           serializer |-> ser.val, deserializer |-> deser.val,
                           back |-> IF deser.out = "ok" /\ string
                                    THEN Apply(deser.val, s) ELSE Err]
                /\ UNCHANGED <<reg, cache, facade, failed>>
                /\ UNCHANGED iovars
            Got(ser, deser) ==
                Applied(ser, deser,
                        IF ser.out = "ok" /\ string THEN Apply(ser.val, Obj(x)) ELSE Err)
            Asked(R) == Got(get_serializer(R, name, string), get_deserializer(R, name, string))
        IN  Asked(reg[r])

\* the registry and the lookups of single serializers
NextLookup ==
    \/ RegisterSerializer(DefaultIORegistry, SerializerCalls)
    \/ GetSerializers(DefaultIORegistry)

SpecLookup == Init /\ [][NextLookup]_vars

\* -------------------------------------------- the calls on char_encoding
\* the names codecs.getencoder knows, and the values a caller assigns
Codecs == {DEFAULT_TEXT_ENCODING, "latin-1"}
CharEncodings == Codecs \cup {"no-such-codec"}

\* the setter of IORegistry.char_encoding: an unknown name is a LookupError and
\* leaves the attribute as it was
set_char_encoding(R, char_encoding) ==
    IF char_encoding \notin Codecs THEN Result("LookupError", R)
    ELSE Result("ok", [R EXCEPT !.char_encoding = char_encoding])

\* r.char_encoding = e
SetCharEncoding(regs) ==
    \E r \in regs, e \in CharEncodings :
        LET Assigned(res) ==
                /\ reg' = [reg EXCEPT ![r] = res.R]
                /\ ret' = [op |-> "char_encoding", reg |-> r, value |-> e,
                           out |-> res.out]
                /\ UNCHANGED <<cache, facade, failed>>
                /\ UNCHANGED iovars
        IN  Assigned(set_char_encoding(reg[r], e))

\* the facades of a text serializer with a compression or a text encoding, and
\* of a binary one
BridgeCalls ==
    { FacadeArgs("json", "lz4", None, None, FALSE),
      FacadeArgs("json", None, "base64", None, TRUE),
      FacadeArgs("json", "lz4", "base64", None, FALSE),
      FacadeArgs("pickle", "lz4", None, None, FALSE) }

\* r.compile_pipeline(...) with the arguments __init__ would pass
CompileBridged(regs) ==
    \E r \in regs, a \in BridgeCalls, withText \in BOOLEAN :
        LET Returned(call, res) ==
                /\ Cardinality(DOMAIN res.cache) <= MaxCache
                /\ cache' = res.cache
                /\ ret' = [op |-> "compile_pipeline", reg |-> r, call |-> call,
                           out |-> res.out, id |-> res.id, hit |-> res.hit]
                /\ UNCHANGED <<reg, facade, failed>>
                /\ UNCHANGED iovars
            Called(R, call) == Returned(call, cached_compile(cache, reg, r, call))
        IN  Called(reg[r], IF withText THEN CallWithText(a) ELSE CallWithoutText(a))

\* obj = FlexiblePersist(..., _io_registry=r)
ConstructBridged(regs) ==
    \E r \in regs, a \in BridgeCalls :
        LET Returned(R, res) ==
                /\ Cardinality(DOMAIN res.cache) <= MaxCache
                /\ cache' = res.cache
                /\ facade' = res.facade
                /\ ret' = [op |-> "FlexiblePersist", reg |-> r, args |-> a,
                           out |-> res.out]
                /\ UNCHANGED <<reg, failed>>
                /\ UNCHANGED iovars
        IN  Returned(reg[r], FlexiblePersist(cache, reg, r, a))

\* char_encoding assignments, compilations and constructions on one registry
NextEncoding ==
    \/ SetCharEncoding(DefaultIORegistry)
    \/ CompileBridged(DefaultIORegistry)
    \/ ConstructBridged(DefaultIORegistry)

SpecEncoding == Init /\ [][NextEncoding]_vars

\* ------------------------------------------------- the calls on text files
\* the length of the sequences a caller dumps
MaxItems == 2

RECURSIVE SeqsUpTo(_, _)
SeqsUpTo(S, n) ==
    IF n = 0 THEN {<<>>}
    ELSE SeqsUpTo(S, n - 1)
         \cup {Append(q, x) : q \in {q \in SeqsUpTo(S, n - 1) : Len(q) = n - 1}, x \in S}

\* the iterables a caller dumps: objects, or objects up to one that is rejected
ItemSeqs ==
    SeqsUpTo({Obj(x) : x \in Objects}, MaxItems)
    \cup {Append(q, Unencodable) : q \in SeqsUpTo({Obj(x) : x \in Objects}, MaxItems - 1)}

\* a behaviour follows one file: a call that writes keeps to the file there is
OneFile(fsys) == files = fsys \/ DOMAIN files = {} \/ DOMAIN fsys = DOMAIN files

Encodable(items) == \A i \in 1..Len(items) : items[i] # Unencodable

\* the file and auto_extension arguments of the text methods
To(target, auto_extension) == [file |-> target, auto_extension |-> auto_extension]

TextTargets ==
    { To(Path(<<"out">>), TRUE), To(Path(<<"out">>), FALSE),
      To(Path(<<"out", Dot, "txt">>), TRUE), To(Stream, TRUE) }

\* how many items a consumer asks a lazy sequence for: none, one, or one more
\* than there can be
Takes == {0, 1, MaxItems + 1}

\* FlexiblePersist(...) calls of the callers that go on to read and write
FileFacadeCalls ==
    { FacadeArgs("pickle", None, None, None, FALSE),
      FacadeArgs("json", None, None, None, FALSE),
      FacadeArgs("json", "gzip", None, None, FALSE),
      FacadeArgs("json", None, "base64", None, FALSE),
      FacadeArgs("pickle", None, "base64", None, FALSE),
      FacadeArgs("pickle", "lz4", "base85", None, TRUE),
      FacadeArgs("yaml", None, "hex", None, FALSE),
      FacadeArgs("cbor", "zip", "b58", None, TRUE) }

\* the registries after SetupCalls on the default one
SetUp ==
    [r \in RegIds |->
        IF r = "default"
        THEN RegisterAll(r, NewRegistry(DEFAULT_TEXT_ENCODING), SetupCalls)
        ELSE NewRegistry(DEFAULT_TEXT_ENCODING)]

\* io = FlexiblePersist(...) on the default registry, nothing read or written yet
InitFiles ==
    \E a \in FileFacadeCalls :
        LET Made(res) ==
                /\ reg = SetUp
                /\ cache = res.cache
                /\ facade = res.facade
                /\ ret = [op |-> "FlexiblePersist", reg |-> "default", args |-> a,
                          out |-> res.out]
                /\ failed = {}
                /\ NoIO
        IN  Made(FlexiblePersist([k \in {} |-> NoPipe], SetUp, "default", a))

\* io.text
AccessText ==
    LET Returned(t) ==
            /\ ret' = [op |-> "text", out |-> t.out]
            /\ UNCHANGED <<reg, cache, facade, failed, files, opened, it, mac>>
    IN  Returned(text_methods(facade))

\* io.text.dump_stream_to_file(items, target, auto_extension)
DumpStreamToFile ==
    \E items \in ItemSeqs, to \in TextTargets :
        LET Returned(res) ==
                /\ OneFile(res.fs)
                /\ files' = res.fs
                /\ opened' = opened \cup res.open
                /\ ret' = [op |-> "dump_stream_to_file", items |-> items,
                           to |-> to, out |-> res.out]
                /\ UNCHANGED <<reg, cache, facade, failed, it, mac>>
        IN  /\ text_methods(facade).out = "ok"
            /\ Returned(dump_stream_to_file(facade, reg[facade.io_registry], files,
                                            items, to.file, to.auto_extension))

\* the items a caller takes from io.text.load_stream_from_file(target)
LoadStreamFromFile ==
    \E to \in TextTargets, take \in Takes :
        LET Returned(res) ==
                /\ files' = res.fs
                /\ opened' = opened \cup res.open
                /\ ret' = [op |-> "load_stream_from_file", to |-> to,
                           take |-> take, out |-> res.out,
                           vals |-> res.vals, exhausted |-> res.exhausted,
                           from |-> IF to.file = Stream /\ StreamKey \in DOMAIN files
                                    THEN files[StreamKey].pos ELSE 0]
                /\ UNCHANGED <<reg, cache, facade, failed, it, mac>>
        IN  /\ text_methods(facade).out = "ok"
            /\ Returned(load_stream_from_file(facade, reg[facade.io_registry], files,
                                              to.file, to.auto_extension, take))

\* stream.seek(0) on the caller's stream
Rewind ==
    /\ StreamKey \in DOMAIN files
    /\ files[StreamKey].pos # 0
    /\ files' = [files EXCEPT ![StreamKey].pos = 0]
    /\ ret' = [op |-> "seek", out |-> "ok"]
    /\ UNCHANGED <<reg, cache, facade, failed, opened, it, mac>>

\* a facade and its text methods
NextTextIO ==
    \/ AccessText
    \/ DumpStreamToFile
    \/ LoadStreamFromFile
    \/ Rewind

SpecTextIO == InitFiles /\ [][NextTextIO]_vars

\* the (key, object) pairs of the keyed calls, and the sequences of them a
\* caller dumps: no key twice
Pairs == {<<<<Chr("a")>>, Obj("o1")>>, <<<<Chr("b"), Chr("c")>>, Obj("o2")>>}

PairSeqs ==
    {q \in SeqsUpTo(Pairs, MaxItems) : \A i, j \in 1..Len(q) : q[i] = q[j] => i = j}

\* the default separator, and one of two characters
Separators == {<<TAB>>, <<Chr(":"), Chr(":")>>}

\* the file is named in full, or is a stream
KeyedTargets == {To(Path(<<"out", Dot, "tsv">>), FALSE), To(Stream, TRUE)}

\* the facades of the callers of the keyed methods
KeyedFacadeCalls ==
    { FacadeArgs("json", None, None, None, FALSE),
      FacadeArgs("pickle", None, "base64", None, FALSE),
      FacadeArgs("cbor", "zip", "b58", None, TRUE) }

\* io = FlexiblePersist(...) with a text interface, nothing read or written yet
InitKeyed ==
    \E a \in KeyedFacadeCalls :
        LET Made(res) ==
                /\ reg = SetUp
                /\ cache = res.cache
                /\ facade = res.facade
                /\ ret = [op |-> "FlexiblePersist", reg |-> "default", args |-> a,
                          out |-> res.out]
                /\ failed = {}
                /\ NoIO
        IN  Made(FlexiblePersist([k \in {} |-> NoPipe], SetUp, "default", a))

\* io.text.dump_keyed_stream_to_file(pairs, target, encode_keys, sep, auto_extension)
DumpKeyedStreamToFile ==
    \E pairs \in PairSeqs, to \in KeyedTargets, sep \in Separators, encode_keys \in BOOLEAN :
        LET Returned(res) ==
                /\ OneFile(res.fs)
                /\ files' = res.fs
                /\ opened' = opened \cup res.open
                /\ ret' = [op |-> "dump_keyed_stream_to_file", items |-> pairs,
                           to |-> to, sep |-> sep, encode_keys |-> encode_keys,
                           out |-> res.out]
                /\ UNCHANGED <<reg, cache, facade, failed, it, mac>>
        IN  /\ text_methods(facade).out = "ok"
            /\ Returned(dump_keyed_stream_to_file(facade, reg[facade.io_registry],
                            files, pairs, to.file, encode_keys, sep, to.auto_extension))

\* the items a caller takes from io.text.load_keyed_stream_from_file(target, ...)
LoadKeyedStreamFromFile ==
    \E to \in KeyedTargets, sep \in Separators, decode_keys \in BOOLEAN, take \in Takes \ {0} :
        LET Returned(res) ==
                /\ files' = res.fs
                /\ opened' = opened \cup res.open
                /\ ret' = [op |-> "load_keyed_stream_from_file", to |-> to,
                           sep |-> sep, decode_keys |-> decode_keys,
                           take |-> take, out |-> res.out,
                           vals |-> res.vals, exhausted |-> res.exhausted,
                           from |-> IF to.file = Stream /\ StreamKey \in DOMAIN files
                                    THEN files[StreamKey].pos ELSE 0]
                /\ UNCHANGED <<reg, cache, facade, failed, it, mac>>
        IN  /\ text_methods(facade).out = "ok"
            /\ Returned(load_keyed_stream_from_file(facade, reg[facade.io_registry],
                            files, to.file, decode_keys, sep, to.auto_extension, take))

\* a facade and its keyed text methods
NextKeyed ==
    \/ DumpKeyedStreamToFile
    \/ LoadKeyedStreamFromFile
    \/ Rewind

SpecKeyed == InitKeyed /\ [][NextKeyed]_vars

\* ------------------------------------------------ the calls on directories
\* the length of a sequence whose indices outgrow one digit
MaxDirItems == 11
\* how often a caller iterates over one returned iterator
MaxPasses == 2

\* the values a caller dumps: all different
Values(n) == [i \in 1..n |-> Obj(ToString(i))]

DirSeqs == {Values(n) : n \in {0, 1, MaxItems, MaxDirItems}}

\* prefix arguments: none, one that ends in a digit, and one that holds a brace
Prefixes == {<<>>, <<"x", "1">>, <<"x", LBrace>>}

\* ndigits arguments: no padding, one digit, and the default
PadWidths == {0, 1, 6}

\* the facades of the callers of the directory methods
DirFacadeCalls ==
    { FacadeArgs("pickle", None, None, None, FALSE),
      FacadeArgs("json", "gzip", None, None, FALSE),
      FacadeArgs("pickle", "lz4", "base85", None, TRUE) }

\* the file systems a caller starts with: no directory yet, or the directory
\* with a file in it that no call of the model has written
NoFiles == [k \in {} |-> File(<<>>, 0, [op |-> "none"])]

Strays ==
    { NoFiles,
      Put(Put(NoFiles, Dir, File(<<>>, 0, [op |-> "mkdir"])),
          join(Dir, <<"x", "1", "notes", Dot, "txt">>), File(<<>>, 0, [op |-> "none"])) }

\* io = FlexiblePersist(...), nothing dumped yet
InitDir ==
    \E a \in DirFacadeCalls, fsys \in Strays :
        LET Made(res) ==
                /\ reg = SetUp
                /\ cache = res.cache
                /\ facade = res.facade
                /\ ret = [op |-> "FlexiblePersist", reg |-> "default", args |-> a,
                          out |-> res.out]
                /\ failed = {}
                /\ files = fsys
                /\ opened = {}
                /\ it = NoIterator
                /\ mac = NoWrite
        IN  Made(FlexiblePersist([k \in {} |-> NoPipe], SetUp, "default", a))

\* io.dump_stream_to_dir(objs, Dir, prefix, ndigits); a behaviour follows one dump
DumpStreamToDir ==
    \E objs \in DirSeqs, prefix \in Prefixes, ndigits \in PadWidths :
        LET Returned(res) ==
                /\ files' = res.fs
                /\ opened' = opened \cup res.open
                /\ ret' = [op |-> "dump_stream_to_dir", items |-> objs,
                           prefix |-> prefix, ndigits |-> ndigits, out |-> res.out]
                /\ UNCHANGED <<reg, cache, facade, failed, it, mac>>
        IN  /\ \A f \in DOMAIN files : files[f].src.op # "dump_stream_to_dir"
            /\ Returned(dump_stream_to_dir(facade, reg[facade.io_registry], files, objs,
                                           Dir, prefix, ndigits))

\* it = io.load_stream_from_dir(Dir, prefix)
LoadStreamFromDir ==
    \E prefix \in Prefixes :
        LET Returned(res) ==
                /\ it' = IF res.out # "ok" THEN NoIterator
                         ELSE [made |-> TRUE, rest |-> res.rest, passes |-> 0,
                               first |-> <<>>, prefix |-> prefix,
                               src |-> files[Dir].src]
                /\ ret' = [op |-> "load_stream_from_dir", prefix |-> prefix,
                           out |-> res.out]
                /\ UNCHANGED <<reg, cache, facade, failed, files, opened, mac>>
        IN  Returned(load_stream_from_dir(facade, reg[facade.io_registry], files,
                                          Dir, prefix))

\* list(it): the iterator is consumed to its end, or to the load that raises
Iterate ==
    LET Returned(res) ==
            /\ it' = [it EXCEPT !.rest = drop(it.rest, Len(it.rest)), !.passes = @ + 1,
                                !.first = IF it.passes = 0 THEN res.vals ELSE @]
            /\ ret' = [op |-> "list", pass |-> it.passes + 1, out |-> res.out,
                       vals |-> res.vals]
            /\ UNCHANGED <<reg, cache, facade, failed, files, opened, mac>>
    IN  /\ it.made
        /\ it.passes < MaxPasses
        /\ Returned(LoadEach(facade, files, it.rest, <<>>))

\* a facade and its directory streams
NextDir ==
    \/ DumpStreamToDir
    \/ LoadStreamFromDir
    \/ Iterate

SpecDir == InitDir /\ [][NextDir]_vars

\* ------------------------------------------------- pickleutils.MacOSFile
\* Lengths and offsets run past 2^31, so they are kept in two limbs:
\* [hi, lo] is hi * 2^30 + lo with 0 <= lo < 2^30.
Limb == 2 ^ 30

Big(hi, lo) == [hi |-> hi, lo |-> lo]
FromInt(i) == Big(i \div Limb, i % Limb)
Zero == Big(0, 0)

BigLt(a, b) == a.hi < b.hi \/ (a.hi = b.hi /\ a.lo < b.lo)
BigLe(a, b) == ~BigLt(b, a)
BigAdd(a, b) == Big(a.hi + b.hi + ((a.lo + b.lo) \div Limb), (a.lo + b.lo) % Limb)
\* a - b for b <= a
BigSub(a, b) ==
    IF a.lo >= b.lo THEN Big(a.hi - b.hi, a.lo - b.lo)
    ELSE Big(a.hi - b.hi - 1, a.lo + (Limb - b.lo))
BigMin(a, b) == IF BigLt(b, a) THEN b ELSE a

\* a << k
Shl(a, k) == a * (2 ^ k)

\* the largest byte count one write(2) takes on Darwin, 2^31 - 1
IntMax == Big(1, Limb - 1)

\* mutant of batch_size: everything that is left goes into one batch
batch_size_Whole(n, idx) == BigSub(n, idx)

\* batch_size = min(n - idx, 1 << 31 - 1); the shift binds less tightly than the
\* subtraction, so the cap is 1 << 30
batch_size(n, idx) == BigMin(BigSub(n, idx), FromInt(Shl(1, 31 - 1)))

\* the largest high limb of a buffer's length, and the write calls of one dump
MaxHi == 4
MaxWrites == 2

\* len(buffer) for the buffers the pickler hands to write: around every
\* multiple of 2^30 up to 2^32 and beyond
BufferLens == {Big(h, l) : h \in 0..MaxHi, l \in {0, 1, Limb - 1}}

\* a slice buffer[from:to] handed to the underlying file
Slice(from, to) == [from |-> from, to |-> to]

\* pickle_dump_file(obj, file): os_safe_file wraps the file in a MacOSFile on
\* Darwin (darwin) and returns it as it is elsewhere; the file is a blocking
\* buffered file, whose write takes the whole of what it is given
PickleDumpFile ==
    /\ mac.pc = "idle"
    /\ \E darwin \in BOOLEAN :
        mac' = [pc |-> "pickling", darwin |-> darwin, calls |-> 0, n |-> Zero,
                idx |-> Zero, log |-> <<>>, passed |-> Zero, size |-> Zero]
    /\ UNCHANGED <<reg, cache, facade, ret, failed, files, opened, it>>

\* the pickler calls file.write(buffer): MacOSFile.write up to its loop, or the
\* file's own write
Write ==
    /\ mac.pc = "pickling"
    /\ mac.calls < MaxWrites
    /\ \E n \in BufferLens :
        mac' = IF mac.darwin
               THEN [mac EXCEPT !.pc = "loop", !.calls = @ + 1, !.n = n, !.idx = Zero,
                                !.log = <<>>, !.passed = BigAdd(@, n)]
               ELSE [mac EXCEPT !.calls = @ + 1, !.n = n, !.idx = n,
                                !.log = <<Slice(Zero, n)>>, !.passed = BigAdd(@, n),
                                !.size = BigAdd(@, n)]
    /\ UNCHANGED <<reg, cache, facade, ret, failed, files, opened, it>>

\* one turn of the loop of MacOSFile.write; the underlying write raises OSError
\* on Darwin for more than 2^31 - 1 bytes
WriteBatch ==
    LET Written(batch) ==
            mac' = IF BigLt(IntMax, batch) THEN [mac EXCEPT !.pc = "OSError"]
                   ELSE [mac EXCEPT !.log = Append(@, Slice(mac.idx, BigAdd(mac.idx, batch))),
                                    !.size = BigAdd(@, batch),
                                    !.idx = BigAdd(@, batch)]
    IN  /\ mac.pc = "loop"
        /\ BigLt(mac.idx, mac.n)
        /\ Written(batch_size(mac.n, mac.idx))
        /\ UNCHANGED <<reg, cache, facade, ret, failed, files, opened, it>>

\* the loop condition idx < n fails: MacOSFile.write returns
WriteReturn ==
    /\ mac.pc = "loop"
    /\ ~BigLt(mac.idx, mac.n)
    /\ mac' = [mac EXCEPT !.pc = "pickling"]
    /\ UNCHANGED <<reg, cache, facade, ret, failed, files, opened, it>>

\* the pickler has written the whole serialized form: pickle_dump_file returns
Dumped ==
    /\ mac.pc = "pickling"
    /\ mac.calls > 0
    /\ mac' = [mac EXCEPT !.pc = "dumped"]
    /\ UNCHANGED <<reg, cache, facade, ret, failed, files, opened, it>>

NextMac ==
    \/ PickleDumpFile
    \/ Write
    \/ WriteBatch
    \/ WriteReturn
    \/ Dumped

SpecMac == Init /\ [][NextMac]_vars

\* a call that is running runs on: the loop is sequential code
FairSpecMac == SpecMac /\ WF_vars(WriteBatch) /\ WF_vars(WriteReturn)

\* ------------------------------------------------------ helpers.maybe_load
\* the path argument
CachePath == <<"cache", Dot, "pkl">>

\* os.remove(path) on a file that exists
Removed(fsys, path) == [f \in DOMAIN fsys \ {path} |-> fsys[f]]

\* what pickle_dump writes to a path for obj, and what pickle_load reads from the
\* content of a file (Err: it raises)
Pickled(obj) == <<Apply(ClassGet("dumpers", "pickle"), obj)>>
Unpickled(toks) == Apply(ClassGet("loaders", "pickle"), AsStr(toks))

\* how the dumper of a call behaves: it writes the file, it raises before it has
\* created the file, or it raises having created it
Dumpers == {"writes", "raises", "creates and raises"}

Returns(out, val, fsys, computed) ==
    [out |-> out, val |-> val, fs |-> fsys, computed |-> computed]

\* _compute of maybe_load, f returning obj
compute(fsys, path, obj, dump, dumper) ==
    IF ~dump THEN Returns("ok", obj, fsys, TRUE)
    ELSE IF dumper = "writes"
    THEN Returns("ok", obj, Put(fsys, path, File(Pickled(obj), 0, [op |-> "maybe_load"])),
                 TRUE)
    ELSE IF dumper = "creates and raises"
    THEN Returns("ok", obj, Removed(fsys, path), TRUE)
    ELSE IF path \in DOMAIN fsys THEN Returns("ok", obj, Removed(fsys, path), TRUE)
    ELSE Returns("FileNotFoundError", Err, fsys, TRUE)

\* helpers.maybe_load(path, f, recompute=recompute, dump=dump, dumper=dumper)
maybe_load(fsys, path, obj, recompute, dump, dumper) ==
    IF ~recompute /\ path \in DOMAIN fsys
    THEN IF Unpickled(fsys[path].text) = Err
         THEN compute(fsys, path, obj, dump, dumper)
         ELSE Returns("ok", Unpickled(fsys[path].text), fsys, FALSE)
    ELSE compute(fsys, path, obj, dump, dumper)

\* what is at the path before the first call: nothing, a pickle, or a file that
\* is no pickle
InitCache ==
    /\ reg = [r \in RegIds |-> NewRegistry(DEFAULT_TEXT_ENCODING)]
    /\ cache = [k \in {} |-> NoPipe]
    /\ facade = NoFacade
    /\ ret = [op |-> "init", out |-> "ok"]
    /\ failed = {}
    /\ \E content \in {<<>>, <<Garbled>>} \cup {Pickled(Obj(x)) : x \in Objects} :
        files = IF content = <<>> THEN NoFiles
                ELSE Put(NoFiles, CachePath, File(content, 0, [op |-> "none"]))
    /\ opened = {}
    /\ it = NoIterator
    /\ mac = NoWrite

\* obj = maybe_load(CachePath, f, ...)
MaybeLoad ==
    \E x \in Objects, recompute \in BOOLEAN, dump \in BOOLEAN, dumper \in Dumpers :
        LET Returned(res) ==
                /\ files' = res.fs
                /\ ret' = [op |-> "maybe_load", x |-> x, recompute |-> recompute,
                           dump |-> dump, dumper |-> dumper,
                           existed |-> CachePath \in DOMAIN files,
                           computed |-> res.computed, out |-> res.out, val |-> res.val]
                /\ UNCHANGED <<reg, cache, facade, failed, opened, it, mac>>
        IN  Returned(maybe_load(files, CachePath, Obj(x), recompute, dump, dumper))

SpecCache == InitCache /\ [][MaybeLoad]_vars

\* ------------------------------------------------------------------ claims
\* the names of a specification that the registry object R knows
SerializerKnown(R, S) == ChainIn(R, "loaders", S) \/ ChainIn(R, "text_loaders", S)

AllRegistered(R, a) ==
    /\ SerializerKnown(R, a.serialization)
    /\ a.compression # None => ChainIn(R, "compressors", a.compression)
    /\ a.text_encoding # None => ChainIn(R, "text_encoders", a.text_encoding)

\* C1: for every registered serializer S, every compression C (or none) and every
\* text encoding T (or none), the pair compile_pipeline builds for (S, C, T)
\* compiles without error and satisfies from_str(to_str(x)) = x, to_str(x) being
\* bytes or str: no stage is handed a type it rejects, in either direction.
C1_RoundTrip ==
    ret.op = "roundtrip" =>
        /\ AllRegistered(reg[ret.reg], Params(ret.call)) => ret.out = "ok"
        /\ ret.out = "ok" =>
            /\ ret.back = Obj(ret.x)
            /\ TypeOf(ret.text) \in {"bytes", "str"}

\* C1 witness: a registered text serializer, compressed by a registered
\* compressor and text-encoded by a class-level encoder, has made the round trip
C1_Witness ==
    /\ ret.op = "roundtrip" /\ ret.out = "ok"
    /\ ret.call.serialization = "yaml" /\ ret.call.compression = "zip"
    /\ ret.call.text_encoding = "base64"
    /\ Len(ret.text.layers) = 5
    /\ ret.back = Obj(ret.x)

\* the extensions of R name their codecs one to one: each is a single dotted
\* segment, no two names of a kind share one, and no text-encoding extension is
\* also a compression extension
ExtValues(R, t) == {ExtItems(R, t)[i][2] : i \in 1..Len(ExtItems(R, t))}

ExtUnambiguous(R) ==
    /\ \A t \in ExtTables :
        /\ Cardinality(ExtValues(R, t)) = Len(ExtItems(R, t))
        /\ \A e \in ExtValues(R, t) :
            /\ Len(split(lstrip(e))) = 1
            /\ split(lstrip(e))[1] # <<>>
    /\ ExtValues(R, "text_extensions") \cap ExtValues(R, "compression_extensions") = {}

\* what the extension e of registry object R resolves to
Resolved(R, e) == IF e.out = "ok" THEN pipeline_from_extension(R, e.val) ELSE e

\* C2 as claimed: for every facade built from (S, C, T), its canonical extension
\* resolves with pipeline_from_extension to exactly (S, C, T), whether the facade
\* was constructed directly with a text encoding T or by from_extension.
C2_ExtensionRoundTrip ==
    facade.exists =>
        Resolved(reg[facade.io_registry], extension(reg[facade.io_registry], facade))
            = Value(<<facade.serialization, facade.compression, facade.text_encoding>>)

\* C2 as amended: on a registry whose extensions name their codecs one to one,
\* the extension of a facade resolves to (S, C, T) when the facade always uses
\* its text encoding (as from_extension builds it) and to (S, C, None) when it
\* was constructed with T but without always_use_text_encoding; then its
\* text_extension is what resolves to (S, C, T).
C2_ExtensionRoundTripAmended ==
    (facade.exists /\ ExtUnambiguous(reg[facade.io_registry])) =>
        LET R == reg[facade.io_registry]
            S == facade.serialization
            C == facade.compression
            T == facade.text_encoding
        IN  /\ Resolved(R, extension(R, facade))
                 = Value(<<S, C, IF facade.always_use_text_encoding THEN T ELSE None>>)
            /\ T # None => Resolved(R, text_extension(R, facade)) = Value(<<S, C, T>>)

\* C2 witness: a facade constructed directly with a text encoding, on a registry
\* with a registration of its own whose extensions are still one to one
C2_Witness ==
    /\ facade.exists /\ facade.text_encoding # None
    /\ ~facade.always_use_text_encoding
    /\ NRegs(reg) > 0
    /\ ExtUnambiguous(reg[facade.io_registry])

\* the registry object as IORegistry() creates it
Pristine(R) == R = NewRegistry(DEFAULT_TEXT_ENCODING)

ResolvedOnDefault(ext) ==
    /\ ret.op = "pipeline_from_extension" /\ ret.reg = "default" /\ ret.ext = ext
    /\ Pristine(reg["default"])

\* C3 as claimed: on the default registry ".json.lz4" resolves to
\* (json, lz4, None) and ".json.base64" to (json, None, base64).
C3_Ambiguity ==
    /\ ResolvedOnDefault(<<Dot, "json", Dot, "lz4">>) =>
        (ret.out = "ok" /\ ret.val = <<"json", "lz4", None>>)
    /\ ResolvedOnDefault(<<Dot, "json", Dot, "base64">>) =>
        (ret.out = "ok" /\ ret.val = <<"json", None, "base64">>)

\* C3 as amended: on the default registry as shipped ".json.lz4" resolves to
\* (json, lz4, None) and ".json.b64" (the extension registered for base64) to
\* (json, None, base64); ".json.base64" names no extension and raises ValueError.
C3_AmbiguityAmended ==
    /\ ResolvedOnDefault(<<Dot, "json", Dot, "lz4">>) =>
        (ret.out = "ok" /\ ret.val = <<"json", "lz4", None>>)
    /\ ResolvedOnDefault(<<Dot, "json", Dot, "b64">>) =>
        (ret.out = "ok" /\ ret.val = <<"json", None, "base64">>)
    /\ ResolvedOnDefault(<<Dot, "json", Dot, "base64">>) => ret.out = "ValueError"

\* C3 witness: ".json.b64" has been resolved on the default registry as shipped,
\* after the other instance had registrations of its own
C3_Witness ==
    /\ ResolvedOnDefault(<<Dot, "json", Dot, "b64">>)
    /\ ret.val = <<"json", None, "base64">>
    /\ ~Pristine(reg["r2"])

\* the class-level (parent) and the instance's own (child) names of a kind
KindTables(c) ==
    IF c.kind = "serializer" THEN {"loaders", "dumpers", "text_loaders", "text_dumpers"}
    ELSE IF c.kind = "compressor" THEN {"compressors", "decompressors"}
    ELSE {"text_encoders", "text_decoders"}

InParent(c) == \E t \in KindTables(c) : c.name \in DOMAIN Class[t]
InChild(R, c) == \E t \in KindTables(c) : c.name \in DOMAIN R[t]

\* the forward callable a lookup of c's name finds on registry object R
Lookup(R, c) ==
    IF c.kind = "serializer"
    THEN get_serializer_pairs(R, is_binary_serialization(R, c.name) = "True", c.name)[1]
    ELSE IF c.kind = "compressor" THEN get_compressor_pair(R, c.name)[1]
    ELSE get_lambda(R, "text_encoders", c.name)

WellFormed(c) == \A i \in 1..Len(c.form) : c.form[i] = "fn"

\* C4: a registration on a child registry under a name that exists only in the
\* inherited parent entries succeeds; afterwards the child's lookup of the name
\* finds the child's codec, and every other instance is left as it was and still
\* finds the parent's codec.
C4_Shadowing ==
    [][\A r \in RegIds, c \in RegCalls :
        (/\ ret' = [op |-> "register", reg |-> r, call |-> c, out |-> ret'.out]
         /\ WellFormed(c) /\ InParent(c) /\ ~InChild(reg[r], c))
        => /\ ret'.out = "ok"
           /\ Lookup(reg'[r], c)[1].codec.origin = r
           /\ \A o \in RegIds \ {r} :
                /\ reg'[o] = reg[o]
                /\ ~InChild(reg[o], c) => Lookup(reg'[o], c)[1].codec.origin = "class"
      ]_vars

\* C5: after any sequence of register_* calls, within each kind no two names of
\* a registry have the same extension, and no serializer name is both a binary
\* and a text serializer.
C5_Unique ==
    \A r \in RegIds :
        /\ \A t \in ExtTables :
            Cardinality(ExtValues(reg[r], t)) = Len(ExtItems(reg[r], t))
        /\ ChainKeys(reg[r], "loaders") \cap ChainKeys(reg[r], "text_loaders") = {}
        /\ ChainKeys(reg[r], "dumpers") \cap ChainKeys(reg[r], "text_dumpers") = {}

\* C6: register_serializer with a callable serializer and deserializer and no
\* stream_serializer/stream_deserializer succeeds (unless the name is taken) and
\* stores the streaming forms derived from the string forms; it fails with
\* TypeError only when a supplied callable is not callable.
C6_StreamOptional ==
    (ret.op = "register" /\ ret.call.kind = "serializer") =>
        LET c == ret.call
            T == SerTables(c.binary)
            R == reg[ret.reg]
        IN  /\ (c.form = <<"fn", "fn", "none", "none">> /\ ret.out # "KeyError") =>
                /\ ret.out = "ok"
                /\ R[T.file_dumpers][c.name] = StreamSerializer(R[T.dumpers][c.name])
                /\ R[T.file_loaders][c.name] = StreamDeserializer(R[T.loaders][c.name])
            /\ ret.out = "TypeError" => \E i \in 1..4 : c.form[i] = "bad"

\* C7: two compile requests on one registry with equal (serialization,
\* compression, text_encoding, options) get the identical compiled pipeline,
\* compiled once, whether an absent stage was omitted or passed as None.
C7_Memoized ==
    \A k1, k2 \in DOMAIN cache :
        (k1[1] = k2[1] /\ Params(k1[2]) = Params(k2[2])) => cache[k1].id = cache[k2].id

SomeOptions(a) ==
    nonempty(a.dump_kw) \/ nonempty(a.load_kw) \/ nonempty(a.compress_kw)
    \/ nonempty(a.decompress_kw)

\* C8: compiling a specification with a non-empty options mapping succeeds, and
\* the options are bound into the transforms: to_str is the serializer's forward
\* with the dump options (then the compressor's with the compress options).
C8_OptionsBound ==
    (/\ ret.op = "compile_pipeline"
     /\ SomeOptions(Params(ret.call))
     /\ AllRegistered(reg[ret.reg], Params(ret.call))) =>
        /\ ret.out = "ok"
        /\ LET a == Params(ret.call)
               pipe == cache[CacheKey(ret.reg, ret.call)].pipe
           IN  /\ pipe.to_str[1].kw = a.dump_kw
               /\ a.compression # None =>
                    \E i \in 1..Len(pipe.to_str) :
                        pipe.to_str[i].op = "compress"
                        /\ pipe.to_str[i].kw = a.compress_kw

\* every callable of a compiled pipeline is there
Complete(pipe) ==
    /\ pipe.file_mode \in {"b", ""}
    /\ \A f \in {pipe.to_str, pipe.from_str, pipe.to_file, pipe.from_file} :
        /\ f # <<>>
        /\ \A i \in 1..Len(f) :
            /\ f[i].op \notin {"None", "NotCallable"}
            /\ \A j \in 1..Len(f[i].inner) :
                f[i].inner[j].op \notin {"None", "NotCallable"}

HasStage(f, g) == \E i \in 1..Len(f) : f[i].op = g[1].op /\ f[i].codec = g[1].codec

\* the pipeline holds the codecs that registry object R now has under a's names
HoldsRegistered(R, a, pipe) ==
    LET T == SerTables(is_binary_serialization(R, a.serialization) = "True")
    IN  /\ HasStage(pipe.to_str, ChainGet(R, T.dumpers, a.serialization))
        /\ HasStage(pipe.from_str, ChainGet(R, T.loaders, a.serialization))
        /\ a.compression # None =>
            /\ HasStage(pipe.to_str, ChainGet(R, "compressors", a.compression))
            /\ HasStage(pipe.from_str, ChainGet(R, "decompressors", a.compression))
        /\ a.text_encoding # None =>
            /\ HasStage(pipe.to_str, ChainGet(R, "text_encoders", a.text_encoding))
            /\ HasStage(pipe.from_str, ChainGet(R, "text_decoders", a.text_encoding))

\* C9: a compile_pipeline call that fails because a named codec is not
\* registered raises and caches nothing for its specification; once the missing
\* codec has been registered, a compile of the same specification succeeds, and
\* what it returns (and caches) is a complete pipeline holding that codec.
C9_NoPartialCache ==
    /\ (ret.op = "compile_pipeline" /\ ret.out \in UnknownCodecErrors) =>
        /\ CacheKey(ret.reg, ret.call) \notin DOMAIN cache
        /\ ~AllRegistered(reg[ret.reg], Params(ret.call))
    /\ (/\ ret.op = "compile_pipeline"
        /\ CacheKey(ret.reg, ret.call) \in failed
        /\ AllRegistered(reg[ret.reg], Params(ret.call))) =>
        /\ ret.out = "ok"
        /\ CacheKey(ret.reg, ret.call) \in DOMAIN cache
        /\ cache[CacheKey(ret.reg, ret.call)].id = ret.id
    /\ \A k \in failed \cap DOMAIN cache :
        /\ Complete(cache[k].pipe)
        /\ HoldsRegistered(reg[k[1]], Params(k[2]), cache[k].pipe)

\* C9 witness: the compile of a specification that had failed for its missing
\* compressor has succeeded after the compressor was registered
C9_Witness ==
    /\ ret.op = "compile_pipeline" /\ ret.out = "ok" /\ ~ret.hit
    /\ CacheKey(ret.reg, ret.call) \in failed
    /\ ret.call.compression = "zip"
    /\ cache[CacheKey(ret.reg, ret.call)].pipe.to_str[2].codec.origin = ret.reg

\* C10: constructing a facade, directly or by from_extension, with a serializer
\* name (or serializer extension) that is not registered raises the unknown-codec
\* error (KeyError from is_binary_serialization, ValueError from _get_lambda) and
\* returns no facade object; the constructor opens no file on any path.
C10_UnknownSerializer ==
    /\ (ret.op = "FlexiblePersist"
        /\ ~SerializerKnown(reg[ret.reg], ret.args.serialization)) =>
        (ret.out \in UnknownCodecErrors /\ facade = NoFacade)
    /\ (ret.op = "from_extension"
        /\ serialization_from_extension(reg[ret.reg],
                                        split(lstrip(ret.ext))[1]).out # "ok") =>
        (ret.out \in UnknownCodecErrors /\ facade = NoFacade)

\* C11: every file a facade operation opens from a path is closed on every exit
\* path of the operation: after it has returned, after an encoder, a decoder or
\* the input iterable has raised midway, and after the consumer of a returned
\* lazy sequence has stopped early, no file the operation opened is still open.
C11_Closed == opened = {}

\* C12: io.text raises NoTextIOMethodsAvailable exactly when the facade's mode is
\* binary and no text_encoding was supplied; in every other case the access
\* succeeds and the line encoder of the interface produces str.
C12_TextAvailable ==
    ret.op = "text" =>
        /\ ret.out = "NoTextIOMethodsAvailable"
            <=> (facade.mode = "b" /\ facade.text_encoding = None)
        /\ ret.out # "NoTextIOMethodsAvailable" =>
            /\ ret.out = "ok"
            /\ \A x \in Objects : TypeOf(Apply(facade.to_line, Obj(x))) = "str"

\* C12 witness: the text interface of a facade whose mode is binary has been
\* accessed and was there, the facade having a text encoding
C12_Witness ==
    /\ ret.op = "text" /\ ret.out = "ok"
    /\ facade.mode = "b" /\ facade.text_encoding # None

\* the file a text method call works on
TextFile(to) == TextPath(reg[facade.io_registry], facade, to.file, to.auto_extension)

\* the file of the call holds what a completed dump call has written
HoldsDump(to, op) ==
    /\ TextFile(to).out = "ok"
    /\ TextFile(to).val \in DOMAIN files
    /\ files[TextFile(to).val].src.op = op
    /\ files[TextFile(to).val].src.complete

\* C13: for every facade whose text interface is available (a text serializer
\* with no compression and no text encoding included) and a target given as a
\* path with the default auto-extension or as an open text stream,
\* dump_stream_to_file of a finite sequence succeeds, and load_stream_from_file
\* of the same target then yields the same elements in the same order.
C13_LineRoundTrip ==
    /\ (ret.op = "dump_stream_to_file" /\ Encodable(ret.items)) => ret.out = "ok"
    /\ (/\ ret.op = "load_stream_from_file"
        /\ ret.take > MaxItems /\ ret.from = 0
        /\ HoldsDump(ret.to, "dump_stream_to_file")) =>
            /\ ret.out = "ok"
            /\ ret.vals = files[TextFile(ret.to).val].src.items

OverDump ==
    /\ it.made
    /\ it.src.op = "dump_stream_to_dir" /\ it.src = files[Dir].src
    /\ it.src.prefix = it.prefix
    /\ it.src.clean /\ it.src.complete

\* C15: for every finite sequence of objects, every prefix and every pad width
\* (sequences longer than 10^pad_width included), dump_stream_to_dir into a
\* directory holding no file that matches prefix<digits><extension> succeeds, and
\* load_stream_from_dir with the same prefix then yields exactly the dumped
\* elements in their original order.
C15_DirRoundTrip ==
    /\ ret.op = "dump_stream_to_dir" => ret.out = "ok"
    /\ (ret.op = "list" /\ ret.pass = 1 /\ OverDump) =>
            /\ ret.out = "ok"
            /\ ret.vals = it.src.items

\* C16 as claimed: the sequence load_stream_from_dir returns is restartable:
\* iterating it a second time after it has been exhausted yields the same
\* elements again, the directory being unchanged.
C16_Restartable ==
    (ret.op = "list" /\ ret.pass > 1 /\ it.src = files[Dir].src) =>
        (ret.out = "ok" /\ ret.vals = it.first)

\* C16 as amended: the sequence load_stream_from_dir returns is finite and
\* one-shot: the directory is listed when the call is made, the first iteration
\* yields one element per file listed and exhausts the iterator, and every
\* later iteration of the same iterator yields nothing; only a new call lists
\* the directory again.
C16_OneShot ==
    /\ ret.op = "load_stream_from_dir" /\ ret.out = "ok" =>
            Len(it.rest) = Cardinality(Matches(files, Dir, it.prefix,
                               extension(reg[facade.io_registry], facade).val))
    /\ ret.op = "list" =>
            /\ it.rest = <<>>
            /\ ret.pass > 1 => (ret.out = "ok" /\ ret.vals = <<>>)
            /\ (ret.pass = 1 /\ OverDump) => Len(ret.vals) = Len(it.src.items)

\* C16 witness: an iterator that had yielded the files of a dump has been
\* iterated a second time
C16_Witness ==
    /\ ret.op = "list" /\ ret.pass = 2 /\ OverDump
    /\ Len(it.first) = MaxItems

\* the text encoder's layers in a datum
TextLayers(v) == {i \in 1..Len(v.layers) : v.layers[i].tag = "tenc"}

\* the datum is the output of the text encoder named: a str whose only
\* text-encoder layer is that encoder's, with nothing but the bytes-to-str
\* conversion above it
TextEncoded(v, name) ==
    /\ TypeOf(v) = "str"
    /\ \E i \in TextLayers(v) :
        /\ TextLayers(v) = {i}
        /\ v.layers[i].codec.name = name
        /\ i >= Len(v.layers) - 1

\* s ends with e
endswith(s, e) == Len(s) >= Len(e) /\ SubSeq(s, Len(s) - Len(e) + 1, Len(s)) = e

\* the facade at hand was returned by from_extension for an extension whose
\* resolution names a text encoding (or names none)
FromSegments(withText) ==
    /\ ret.op = "from_extension" /\ ret.out = "ok"
    /\ (pipeline_from_extension(reg[ret.reg], ret.ext).val[3] # None) = withText

\* C17: a facade built by from_extension from an extension with a text-encoding
\* segment uses the text-encoded pipeline for every operation: mode is text,
\* dumps and dump produce the text encoder's output, loads and load decode
\* through it, and the canonical extension ends with the text encoding's
\* extension; a facade built from an extension without such a segment never
\* applies a text encoding.
C17_TextPipeline ==
    /\ FromSegments(TRUE) =>
        /\ facade.text_encoding = pipeline_from_extension(reg[ret.reg], ret.ext).val[3]
        /\ facade.mode = ""
        /\ extension(reg[ret.reg], facade).out = "ok"
        /\ endswith(extension(reg[ret.reg], facade).val,
                    ExtGet(reg[ret.reg], "text_extensions", facade.text_encoding))
        /\ \A x \in Objects :
            /\ TextEncoded(Apply(facade.dumps, Obj(x)), facade.text_encoding)
            /\ ToFile(facade.dump, Obj(x)) = <<Apply(facade.dumps, Obj(x))>>
            /\ Apply(facade.loads, Apply(facade.dumps, Obj(x))) = Obj(x)
            /\ FromFile(facade.load, ToFile(facade.dump, Obj(x))) = Obj(x)
    /\ FromSegments(FALSE) =>
        /\ facade.text_encoding = None
        /\ \A x \in Objects :
            /\ Apply(facade.dumps, Obj(x)) # Err
            /\ TextLayers(Apply(facade.dumps, Obj(x))) = {}
            /\ ToFile(facade.dump, Obj(x)) = <<Apply(facade.dumps, Obj(x))>>

\* C17 witness: facades from a three-part extension, with compression under the
\* text encoding
C17_Witness ==
    /\ FromSegments(TRUE)
    /\ ret.ext = <<Dot, "pkl", Dot, "lz4", Dot, "b64">>
    /\ facade.compression = "lz4" /\ facade.text_encoding = "base64"

\* the slices handed to the underlying file so far are a cut of buffer[0:idx]:
\* they start at 0, each starts where the one before ends, none is empty
InOrder(log, idx) ==
    /\ \A i \in 1..Len(log) :
        /\ log[i].from = (IF i = 1 THEN Zero ELSE log[i - 1].to)
        /\ BigLt(log[i].from, log[i].to)
    /\ idx = (IF log = <<>> THEN Zero ELSE log[Len(log)].to)

\* what holds of MacOSFile.write at every step
C18_Batches ==
    mac.pc # "idle" =>
        /\ mac.pc # "OSError"
        /\ mac.darwin =>
            /\ InOrder(mac.log, mac.idx)
            /\ \A i \in 1..Len(mac.log) :
                BigLe(BigSub(mac.log[i].to, mac.log[i].from), IntMax)
        /\ BigLe(mac.idx, mac.n)
        /\ mac.pc # "loop" => mac.idx = mac.n
        /\ BigAdd(mac.size, BigSub(mac.n, mac.idx)) = mac.passed
        /\ (mac.pc = "dumped" /\ BigLt(Big(2, 0), mac.passed)) =>
                BigLe(mac.passed, mac.size)

\* C18: MacOSFile.write passes every byte of its buffer to the underlying file
\* exactly once, in order, in batches of at most 2^31 - 1 bytes, and
\* terminates; so dumping an object whose serialized form exceeds 2^31 bytes
\* produces a file at least that large.
C18_Write == [](C18_Batches) /\ ((mac.pc = "loop") ~> (mac.pc = "pickling"))

\* C18 witness: a dump through MacOSFile has returned whose writes passed more
\* than 2^31 bytes, one of them in more than two batches
C18_Witness ==
    /\ mac.pc = "dumped" /\ mac.darwin
    /\ BigLt(Big(2, 0), mac.passed)
    /\ Len(mac.log) > 2

\* pipeline_from_extension has returned or raised for an extension of two parts
TwoParts == ret.op = "pipeline_from_extension" /\ Len(split(lstrip(ret.ext))) = 2

\* the i-th part of the extension is a registered extension of table t
PartIn(i, t) == dotted(split(lstrip(ret.ext))[i]) \in ExtValues(reg[ret.reg], t)

\* the name returned has the i-th part as its extension in table t
NameOf(name, i, t) ==
    /\ name # None
    /\ ExtIn(reg[ret.reg], t, name)
    /\ ExtGet(reg[ret.reg], t, name) = dotted(split(lstrip(ret.ext))[i])

\* C19: for a two-part extension the first part is resolved as the serializer
\* and the second as a compression extension first and as a text-encoding
\* extension only if that fails: a part registered for both gives the
\* compressor and no text encoding, a part registered for neither is an error
\* and no partial result.
C19_TwoParts ==
    TwoParts =>
        /\ ret.out = "ok" <=>
            /\ PartIn(1, "serialization_extensions")
            /\ PartIn(2, "compression_extensions") \/ PartIn(2, "text_extensions")
        /\ ret.out # "ok" => ret.val = None
        /\ ret.out = "ok" =>
            /\ NameOf(ret.val[1], 1, "serialization_extensions")
            /\ IF PartIn(2, "compression_extensions")
               THEN NameOf(ret.val[2], 2, "compression_extensions") /\ ret.val[3] = None
               ELSE ret.val[2] = None /\ NameOf(ret.val[3], 2, "text_extensions")

\* C19 witness: the second part is an extension of a compressor and of a text
\* encoder, and the extension was resolved
C19_Witness ==
    /\ TwoParts /\ ret.out = "ok"
    /\ PartIn(2, "compression_extensions") /\ PartIn(2, "text_extensions")

\* a pipeline with a compression stage or a text-encoding stage was compiled and
\* its entry points applied to an object
Staged ==
    /\ ret.op = "roundtrip" /\ ret.out = "ok"
    /\ Given(ret.call.compression) # None \/ Given(ret.call.text_encoding) # None

\* C20: for every pipeline with a compression stage or a text-encoding stage the
\* stream entry points are the buffered string entry points: to_stream(obj, sink)
\* performs exactly one write of to_text(obj), from_stream(source) returns
\* from_text(source.read()), and so dump to a stream followed by load from the
\* rewound stream returns the object.
C20_StreamEntryPoints ==
    Staged =>
        /\ ret.written = <<ret.text>>
        /\ ret.read = ret.back
        /\ ret.text # Err => ret.read = Obj(ret.x)

\* C20 witness: an object went through a pipeline with both stages and came back
\* from the stream
C20_Witness ==
    /\ Staged
    /\ Given(ret.call.compression) # None /\ Given(ret.call.text_encoding) # None
    /\ ret.text # Err
    /\ ret.read = Obj(ret.x)

\* the character encodings of the bridges of a callable: of str_to_bytes on the
\* way out (forward), of bytes_to_str on the way back
BridgeEncodings(f, forward) ==
    {f[i].enc : i \in {j \in 1..Len(f) :
                        f[j].op = (IF forward THEN "str_to_bytes" ELSE "bytes_to_str")}}

\* C21: for a text serializer with a compression or a text encoding the
\* str-to-bytes bridge and the bytes-to-str bridge of the inverse path use the
\* registry's character encoding: after any interleaving of char_encoding
\* assignments, compilations and constructions, a facade constructed while the
\* registry's char_encoding is E encodes and decodes its bridge with E.
C21_BridgeEncoding ==
    (ret.op = "FlexiblePersist" /\ ret.out = "ok") =>
        /\ BridgeEncodings(facade.dumps, TRUE) \subseteq {reg[ret.reg].char_encoding}
        /\ BridgeEncodings(facade.loads, FALSE) \subseteq {reg[ret.reg].char_encoding}
        /\ BridgeEncodings(facade.to_line, TRUE) \subseteq {reg[ret.reg].char_encoding}
        /\ BridgeEncodings(facade.from_line, FALSE) \subseteq {reg[ret.reg].char_encoding}

\* the name is a serializer of the registry, class-level or registered
KnownSerializer(R, name) == ChainIn(R, "dumpers", name) \/ ChainIn(R, "text_dumpers", name)

\* C22: for every serializer name known to the registry and either value of the
\* string flag, get_serializer and get_deserializer both return a function, the
\* one get_deserializer returns undoes the one get_serializer returns (for the
\* string form), and both lookups see the serializers registered on the
\* instance.
C22_Inverse ==
    (ret.op = "get_serializer" /\ KnownSerializer(reg[ret.reg], ret.name)) =>
        /\ ret.ser = "ok" /\ ret.deser = "ok"
        /\ ret.string => ret.back = Obj(ret.x)
        /\ (ret.string /\ ret.name \in DOMAIN reg[ret.reg].dumpers) =>
                ret.serializer = reg[ret.reg].dumpers[ret.name]

\* C23: maybe_load always returns a value and never propagates a persistence
\* failure: with the path absent, recompute true or a loader that raises it
\* returns what f computes, and when dump is true and the dumper raises, whether
\* or not it had created the file, the computed object is still returned and
\* no file is left at the path.
C23_NeverPropagates ==
    ret.op = "maybe_load" =>
        /\ ret.out = "ok"
        /\ ret.val # Err
        /\ ret.computed => ret.val = Obj(ret.x)
        /\ (ret.computed /\ ret.dump /\ ret.dumper # "writes") =>
                CachePath \notin DOMAIN files
====
